---------------------------- MODULE Spec2Model ----------------------------
(***************************************************************************)
(* A model of the lazy-sequence combinators of controlled-async-stream:    *)
(* SyncSequence / AsyncSequence (direct wrapping of generator objects),    *)
(* LazyStream / AsyncLazyStream (a stage list applied at materialization), *)
(* the conversion bridge toSync / toAsync, and flatten.                    *)
(*                                                                         *)
(* Generator objects live in a heap (gens).  One pull of a consumer, that  *)
(* is one next() call on the outermost iterator, is one atomic step: it    *)
(* runs the generator bodies down to the sources exactly as for...of and   *)
(* yield do.  The async helpers have the same bodies with await added; a   *)
(* pull that would have to wait for a source that is not ready is simply   *)
(* not enabled yet.                                                        *)
(***************************************************************************)
EXTENDS Integers, Sequences, FiniteSets, TLC

\* ------------------------------------------------------------------ bounds
MaxLen == 3          \* longest source sequence drawn by Init
MaxN == 3            \* largest count handed to take / skip
MaxPull == 5         \* cap on elements drawn from an unbounded source

\* ------------------------------------------------------------------- state
VARIABLES
  srcs,     \* the source objects: [kind, items]; kind is "array" (re-iterable),
            \* "gen" (a generator object, single use) or "inf" (an unbounded one)
  spos,     \* per generator source: how many elements it has yielded
  sclosed,  \* per generator source: it has returned (ran off its end, or return())
  pulled,   \* per source: the pull counter (elements handed out, by any iterator)
  ended,    \* per source: some iterator over it has reported done
  ready,    \* per source: an element (or the end) is available without waiting
  gens,     \* the heap of generator objects made by the helper functions
  objs,     \* the SyncSequence / AsyncSequence / LazyStream / AsyncLazyStream objects
  calls,    \* number of user callback invocations so far
  log,      \* what the helpers did, in order (pulls, callback calls, emissions)
  cons,     \* the consumers: [ref, pos, out, done, n] per running iteration
  aux,      \* what the driver remembers of its last chain call and terminal results
  fl,       \* a flatten call on a nested input: [impl, input, depth, out, done]
  conv,     \* the toSync() calls: [o, ref, pos, results, ret]; ret is 0 while pending
  faults,   \* the <<callback, argument>> pairs on which the user's callback throws
  run,      \* an async pipeline, or the paced loop, run await by await
  ctl       \* a rate adjuster's closure variables and its last call

vars == <<srcs, spos, sclosed, pulled, ended, ready, gens, objs, calls, log, cons,
          aux, fl, conv, faults, run, ctl>>

\* What the sequence operations leave alone.
rest == <<fl, conv, faults, run, ctl>>

\* No rate adjuster has been created.
NoCtl == [impl |-> "", delay |-> 0, prev |-> 0, errorSum |-> 0, lastError |-> 0,
          used |-> 0, latency |-> 0, ret |-> 0, n |-> 0, streak |-> 0]

\* No pipeline is being run await by await.
NoRun == [stages |-> <<>>, items |-> <<>>, pos |-> 0, src |-> "idle", out |-> <<>>,
          waiting |-> FALSE, done |-> FALSE, durs |-> <<>>]

\* ------------------------------------------------------------------ values
NoVal == 0  \* stands for the value field of a {done: true} result

SrcRef(s) == [k |-> "src", id |-> s]
GenRef(g) == [k |-> "gen", id |-> g]

\* The mutable part of the state, bundled to thread it through one pull.
Heap == [gens |-> gens, objs |-> objs, spos |-> spos, sclosed |-> sclosed,
         pulled |-> pulled, ended |-> ended, calls |-> calls, log |-> log]

Commit(h) ==
  /\ gens' = h.gens
  /\ objs' = h.objs
  /\ spos' = h.spos
  /\ sclosed' = h.sclosed
  /\ pulled' = h.pulled
  /\ ended' = h.ended
  /\ calls' = h.calls
  /\ log' = h.log

\* The three results of a next() call.
Yielded(h, pos, v) == [h |-> h, pos |-> pos, st |-> "val", val |-> v]
Finished(h, pos) == [h |-> h, pos |-> pos, st |-> "done", val |-> NoVal]
Blocked(h, pos) == [h |-> h, pos |-> pos, st |-> "blocked", val |-> NoVal]

\* next() gave nothing to go on with: its promise is still pending, or it
\* threw.  No helper has a try / catch, so what an upstream next() throws
\* leaves the helper's loop as it is.
NoResult(r) == r.st \in {"blocked", "throw"}

\* ----------------------------------------------------------------- sources
\* next() on an iterator over source s; pos is the cursor of an array iterator.
SrcNext(h, s, pos) ==
  LET S == srcs[s] IN
  IF ~ready[s] THEN Blocked(h, pos)
  ELSE IF S.kind = "array" THEN
    IF pos < Len(S.items)
      THEN Yielded([h EXCEPT !.pulled[s] = @ + 1,
                             !.log = Append(@, <<"pull", s>>)],
                   pos + 1, S.items[pos + 1])
      ELSE Finished([h EXCEPT !.ended[s] = TRUE], pos)
  ELSE IF h.sclosed[s] THEN Finished(h, pos)
  ELSE IF S.kind = "inf" THEN
    IF h.pulled[s] >= MaxPull THEN Blocked(h, pos)
    ELSE Yielded([h EXCEPT !.pulled[s] = @ + 1, !.spos[s] = @ + 1,
                           !.log = Append(@, <<"pull", s>>)],
                 pos, h.spos[s] + 1)
  ELSE IF h.spos[s] < Len(S.items)
    THEN Yielded([h EXCEPT !.pulled[s] = @ + 1, !.spos[s] = @ + 1,
                           !.log = Append(@, <<"pull", s>>)],
                 pos, S.items[h.spos[s] + 1])
    ELSE Finished([h EXCEPT !.ended[s] = TRUE, !.sclosed[s] = TRUE], pos)


\* --------------------------------------------------------- user callbacks
\* The callbacks the drivers hand to map / filter / flatMap (the examples' own).
\* x => [x, x / 2] is handed even numbers only, on which x / 2 is x \div 2.
MapFn(f, x) ==
  CASE f = "x2" -> x * 2
    [] OTHER -> x

PredFn(p, x) ==
  CASE p = "gt5" -> x > 5
    [] p = "gt10" -> x > 10
    [] p = "odd" -> x % 2 = 1
    [] OTHER -> TRUE

FlatFn(f, x) ==
  CASE f \in {"xhalf", "xhalfAsync"} -> <<x, x \div 2>>
    [] OTHER -> <<x>>

\* isAsyncIterable(fn(item)): "xhalfAsync" is the callback that hands back an
\* async generator object over x, x / 2 instead of the array.
isAsyncIterable(f) == f = "xhalfAsync"

Call(h, what, x) ==
  [h EXCEPT !.calls = @ + 1, !.log = Append(@, <<"call", what, x>>)]

\* -------------------------------------------------------- generator heap
\* A generator object as a helper function call creates it: suspended at its
\* start, nothing of its body run.  ups are the iterables it was handed; pos
\* the cursors of the array iterators it opens on them; cnt its local count;
\* idx the iterable concat is at; buf what is left of flatMap's inner array.
Gen(op, a, ups) ==
  [op |-> op, a |-> a, ups |-> ups, st |-> "start", cnt |-> 0,
   pos |-> [j \in DOMAIN ups |-> 0], idx |-> 1, buf |-> <<>>]

NewGen(h, op, a, ups) == [h EXCEPT !.gens = Append(@, Gen(op, a, ups))]

Return(h, g) == Finished([h EXCEPT !.gens[g].st = "done"], 0)
Yield(h, g, v) == Yielded([h EXCEPT !.gens[g].st = "run"], 0, v)

\* The one element of a one-element set.  A value bound by  r \in {e}  is
\* computed once, however often the body uses it.
Only(S) == CHOOSE x \in S : TRUE

RECURSIVE PullRef(_, _, _), PullGen(_, _), Close(_, _)
RECURSIVE filter(_, _), skip(_, _), concat(_, _), flatMap(_, _), asyncConcat(_, _)
RECURSIVE asyncFlatMap(_, _), flatMapAhead(_, _)
RECURSIVE Compose(_, _, _, _), StreamAll(_, _, _, _), stream(_, _)

\* The generator g asks its j-th upstream iterator for the next element.
PullUp(h, g, j) ==
  Only({ [r EXCEPT !.h.gens[g].pos[j] = r.pos, !.h.gens[g].st = "run"]
         : r \in {PullRef(h, h.gens[g].ups[j], h.gens[g].pos[j])} })

\* return() on an iterator, as a break out of for...of calls it.  An array
\* iterator has none.  A generator that has not started just completes; one
\* suspended inside its own for...of (or yield*) hands the return() on.
Close(h, ref) ==
  IF ref.k = "src" THEN
    IF srcs[ref.id].kind = "array" THEN h
    ELSE [h EXCEPT !.sclosed[ref.id] = TRUE]
  ELSE
    LET G == h.gens[ref.id]
        h1 == [h EXCEPT !.gens[ref.id].st = "done"]
    IN  IF G.st # "run" THEN h1
        ELSE IF G.op \in {"zip", "asyncZip"} THEN h1
        ELSE IF G.op \in {"concat", "asyncConcat"} THEN
          IF G.idx <= Len(G.ups) THEN Close(h1, G.ups[G.idx]) ELSE h1
        ELSE Close(h1, G.ups[1])

\* The user's callback throws on this argument.
Throws(what, x) == <<what, x>> \in faults

\* A callback throws inside the helper's for...of loop: the loop is left by
\* the exception, which calls return() on the upstream iterator.
Throw(h, g) ==
  [h |-> Close(h, h.gens[g].ups[1]), pos |-> 0, st |-> "throw", val |-> NoVal]

\* map that catches what fn throws, drops the element and goes on.
RECURSIVE mapSkipsFailing(_, _)
mapSkipsFailing(h, g) ==
  Only({
       IF NoResult(r) THEN r
       ELSE IF r.st = "done" THEN Return(r.h, g)
       ELSE IF Throws("map", r.val) THEN mapSkipsFailing(Call(r.h, "map", r.val), g)
       ELSE Yield(Call(r.h, "map", r.val), g, MapFn(h.gens[g].a, r.val))
    : r \in {PullUp(h, g, 1)} })

\* function* map: for (const item of iter) yield fn(item)
map(h, g) ==
  Only({
       IF NoResult(r) THEN r
       ELSE IF r.st = "done" THEN Return(r.h, g)
       ELSE IF Throws("map", r.val) THEN Throw(Call(r.h, "map", r.val), g)
       ELSE Yield(Call(r.h, "map", r.val), g, MapFn(h.gens[g].a, r.val))
    : r \in {PullUp(h, g, 1)} })

\* filter that ends at the first element its predicate rejects.
filterUntilReject(h, g) ==
  Only({
       IF NoResult(r) THEN r
       ELSE IF r.st = "done" THEN Return(r.h, g)
       ELSE LET h1 == Call(r.h, "filter", r.val) IN
            IF PredFn(h.gens[g].a, r.val) THEN Yield(h1, g, r.val)
            ELSE Return(Close(h1, h.gens[g].ups[1]), g)
    : r \in {PullUp(h, g, 1)} })

\* function* filter: for (const item of iter) if (predicate(item)) yield item
filter(h, g) ==
  Only({
       IF NoResult(r) THEN r
       ELSE IF r.st = "done" THEN Return(r.h, g)
       ELSE LET h1 == Call(r.h, "filter", r.val) IN
            IF Throws("filter", r.val) THEN Throw(h1, g)
            ELSE IF PredFn(h.gens[g].a, r.val) THEN Yield(h1, g, r.val) ELSE filter(h1, g)
    : r \in {PullUp(h, g, 1)} })

\* function* take: for (const item of iter) if (count++ < n) yield item; else break
\* take whose count lives in the stage (one count for every materialization)
\* instead of in the generator object.
takeCountInStage(h, g) ==
  Only({
       IF NoResult(r) THEN r
       ELSE IF r.st = "done" THEN Return(r.h, g)
       ELSE LET G == r.h.gens[g]
                used == [o \in DOMAIN r.h.objs |->
                          [r.h.objs[o] EXCEPT !.pipeline =
                             [k \in DOMAIN r.h.objs[o].pipeline |->
                                IF r.h.objs[o].pipeline[k].op = "take"
                                   /\ r.h.objs[o].pipeline[k].a > 0
                                  THEN [r.h.objs[o].pipeline[k] EXCEPT !.a = @ - 1]
                                  ELSE r.h.objs[o].pipeline[k]]]]
                h1 == [r.h EXCEPT !.gens[g].cnt = @ + 1, !.objs = used]
            IN  IF G.cnt < G.a THEN Yield(h1, g, r.val)
                ELSE Return(Close(h1, G.ups[1]), g)
    : r \in {PullUp(h, g, 1)} })

take(h, g) ==
  Only({
       IF NoResult(r) THEN r
       ELSE IF r.st = "done" THEN Return(r.h, g)
       ELSE LET G == r.h.gens[g]
                h1 == [r.h EXCEPT !.gens[g].cnt = @ + 1]
            IN  IF G.cnt < G.a THEN Yield(h1, g, r.val)
                ELSE Return(Close(h1, G.ups[1]), g)
    : r \in {PullUp(h, g, 1)} })

\* A skip that drops one element more than it was asked to.
skipOneMore(h, g) ==
  Only({
       IF NoResult(r) THEN r
       ELSE IF r.st = "done" THEN Return(r.h, g)
       ELSE LET G == r.h.gens[g]
                h1 == [r.h EXCEPT !.gens[g].cnt = @ + 1]
            IN  IF G.cnt > G.a THEN Yield(h1, g, r.val) ELSE skip(h1, g)
    : r \in {PullUp(h, g, 1)} })

\* function* skip: for (const item of iter) if (count++ >= n) yield item
skip(h, g) ==
  Only({
       IF NoResult(r) THEN r
       ELSE IF r.st = "done" THEN Return(r.h, g)
       ELSE LET G == r.h.gens[g]
                h1 == [r.h EXCEPT !.gens[g].cnt = @ + 1]
            IN  IF G.cnt >= G.a THEN Yield(h1, g, r.val) ELSE skip(h1, g)
    : r \in {PullUp(h, g, 1)} })

\* function* concat: for (const iter of iters) yield* iter
concat(h, g) ==
  IF h.gens[g].idx > Len(h.gens[g].ups) THEN Return(h, g)
  ELSE Only({
       IF NoResult(r) THEN r
       ELSE IF r.st = "val" THEN Yield(r.h, g, r.val)
       ELSE concat([r.h EXCEPT !.gens[g].idx = @ + 1], g)
    : r \in {PullUp(h, g, h.gens[g].idx)} })

\* A zip that leaves the right side alone once the left side has ended.
zipLeftDecides(h, g) ==
  Only({
       IF NoResult(ra) THEN ra
       ELSE IF ra.st = "done" THEN Return(ra.h, g)
       ELSE Only({
            IF NoResult(rb) THEN rb
            ELSE IF rb.st = "val"
              THEN Yield(rb.h, g, <<ra.val, rb.val>>)
              ELSE Return(rb.h, g)
         : rb \in {PullUp(ra.h, g, 2)} })
    : ra \in {PullUp(h, g, 1)} })

\* function* zip: a = it1.next(); b = it2.next(); while (!a.done && !b.done)
\* { yield [a.value, b.value]; a = it1.next(); b = it2.next() }
zip(h, g) ==
  Only({
       IF NoResult(ra) THEN ra
       ELSE Only({
            IF NoResult(rb) THEN rb
            ELSE IF ra.st = "val" /\ rb.st = "val"
              THEN Yield(rb.h, g, <<ra.val, rb.val>>)
              ELSE Return(rb.h, g)
         : rb \in {PullUp(ra.h, g, 2)} })
    : ra \in {PullUp(h, g, 1)} })

\* A tap that hands the element on first and runs fn on it when it is asked
\* for the next one.
tapLate(h, g) ==
  Only({
       IF NoResult(r) THEN r
       ELSE IF r.st = "done" THEN Return(r.h, g)
       ELSE Yield([r.h EXCEPT !.gens[g].buf = <<r.val>>], g, r.val)
    : r \in {PullUp(IF h.gens[g].buf = <<>> THEN h
                    ELSE Call([h EXCEPT !.gens[g].buf = <<>>], "tap", Head(h.gens[g].buf)),
                    g, 1)} })

\* function* tap: for (const item of iter) { fn(item); yield item }
tap(h, g) ==
  Only({
       IF NoResult(r) THEN r
       ELSE IF r.st = "done" THEN Return(r.h, g)
       ELSE IF Throws("tap", r.val) THEN Throw(Call(r.h, "tap", r.val), g)
       ELSE Yield(Call(r.h, "tap", r.val), g, r.val)
    : r \in {PullUp(h, g, 1)} })

\* flatMap that asks upstream for the next element as soon as it has handed
\* out the last one of a nested sequence.
flatMapAhead(h, g) ==
  IF Len(h.gens[g].buf) > 1
    THEN Yield([h EXCEPT !.gens[g].buf = Tail(@)], g, Head(h.gens[g].buf))
  ELSE Only({
         IF NoResult(r) THEN r
         ELSE IF r.st = "done"
           THEN IF h.gens[g].buf # <<>>
                  THEN Yield([r.h EXCEPT !.gens[g].buf = <<>>], g, Head(h.gens[g].buf))
                  ELSE Return(r.h, g)
         ELSE IF h.gens[g].buf # <<>>
           THEN Yield([Call(r.h, "flatMap", r.val)
                         EXCEPT !.gens[g].buf = FlatFn(h.gens[g].a, r.val)],
                      g, Head(h.gens[g].buf))
         ELSE flatMapAhead([Call(r.h, "flatMap", r.val)
                              EXCEPT !.gens[g].buf = FlatFn(h.gens[g].a, r.val)], g)
      : r \in {PullUp(h, g, 1)} })

\* function* flatMap: for (const item of iter) yield* fn(item)
flatMap(h, g) ==
  IF h.gens[g].buf # <<>>
    THEN Yield([h EXCEPT !.gens[g].buf = Tail(@)], g, Head(h.gens[g].buf))
    ELSE Only({
         IF NoResult(r) THEN r
         ELSE IF r.st = "done" THEN Return(r.h, g)
         ELSE IF Throws("flatMap", r.val) THEN Throw(Call(r.h, "flatMap", r.val), g)
         ELSE flatMap([Call(r.h, "flatMap", r.val)
                         EXCEPT !.gens[g].buf = FlatFn(h.gens[g].a, r.val)], g)
      : r \in {PullUp(h, g, 1)} })

\* async function* asyncFlatMap: for await (const item of iter) { subIterable =
\* await fn(item); then for await (...) yield subItem if it is async iterable,
\* for (...) yield subItem if not }.  buf is what the inner loop has left.
asyncFlatMap(h, g) ==
  IF h.gens[g].buf # <<>>
    THEN IF isAsyncIterable(h.gens[g].a)
           THEN Yield([h EXCEPT !.gens[g].buf = Tail(@)], g, Head(h.gens[g].buf))
           ELSE Yield([h EXCEPT !.gens[g].buf = Tail(@)], g, Head(h.gens[g].buf))
    ELSE Only({
         IF NoResult(r) THEN r
         ELSE IF r.st = "done" THEN Return(r.h, g)
         ELSE IF Throws("flatMap", r.val) THEN Throw(Call(r.h, "flatMap", r.val), g)
         ELSE asyncFlatMap([Call(r.h, "flatMap", r.val)
                              EXCEPT !.gens[g].buf = FlatFn(h.gens[g].a, r.val)], g)
      : r \in {PullUp(h, g, 1)} })

\* async function* asyncTake: for await (const item of iter)
\* if (count++ < n) yield item; else break
asyncTake(h, g) ==
  Only({
       IF NoResult(r) THEN r
       ELSE IF r.st = "done" THEN Return(r.h, g)
       ELSE LET G == r.h.gens[g]
                h1 == [r.h EXCEPT !.gens[g].cnt = @ + 1]
            IN  IF G.cnt < G.a THEN Yield(h1, g, r.val)
                ELSE Return(Close(h1, G.ups[1]), g)
    : r \in {PullUp(h, g, 1)} })

\* A concat that merges: when the iterable it is at has nothing ready it goes
\* on to the next one instead of waiting.
asyncConcatRace(h, g) ==
  IF h.gens[g].idx > Len(h.gens[g].ups) THEN Return(h, g)
  ELSE Only({
       IF r.st = "val" THEN Yield(r.h, g, r.val)
       ELSE IF r.st = "blocked" /\ h.gens[g].idx = Len(h.gens[g].ups) THEN r
       ELSE asyncConcat([h EXCEPT !.gens[g].idx = @ + 1], g)
    : r \in {PullUp(h, g, h.gens[g].idx)} })

\* async function* asyncConcat: for (const iter of iters) yield* iter
asyncConcat(h, g) ==
  IF h.gens[g].idx > Len(h.gens[g].ups) THEN Return(h, g)
  ELSE Only({
       IF NoResult(r) THEN r
       ELSE IF r.st = "val" THEN Yield(r.h, g, r.val)
       ELSE asyncConcat([r.h EXCEPT !.gens[g].idx = @ + 1], g)
    : r \in {PullUp(h, g, h.gens[g].idx)} })

\* A zip that goes on while either side has elements.
asyncZipLongest(h, g) ==
  Only({
       IF NoResult(ra) THEN ra
       ELSE Only({
            IF NoResult(rb) THEN rb
            ELSE IF ra.st = "val" \/ rb.st = "val"
              THEN Yield(rb.h, g, <<ra.val, rb.val>>)
              ELSE Return(rb.h, g)
         : rb \in {PullUp(ra.h, g, 2)} })
    : ra \in {PullUp(h, g, 1)} })

\* async function* asyncZip: a = await it1.next(); b = await it2.next();
\* while (!a.done && !b.done) { yield [a.value, b.value]; a = ...; b = ... }
asyncZip(h, g) ==
  Only({
       IF NoResult(ra) THEN ra
       ELSE Only({
            IF NoResult(rb) THEN rb
            ELSE IF ra.st = "val" /\ rb.st = "val"
              THEN Yield(rb.h, g, <<ra.val, rb.val>>)
              ELSE Return(rb.h, g)
         : rb \in {PullUp(ra.h, g, 2)} })
    : ra \in {PullUp(h, g, 1)} })

\* ------------------------------------------------------- staged pipelines
\* A stage of a LazyStream / AsyncLazyStream pipeline: the closure that
\* addOperation pushed, (input) => op(input, a, ...oth.map(s => s.stream())).
Stage(op, a, oth) == [op |-> op, a |-> a, oth |-> oth]

IsAsync(cls) == cls \in {"AsyncSequence", "AsyncLazyStream"}
IsStaged(cls) == cls \in {"LazyStream", "AsyncLazyStream"}

\* The helper a class calls for an operator (the async files name theirs async*).
Helper(cls, op) ==
  IF IsAsync(cls) /\ op = "take" THEN "asyncTake"
  ELSE IF IsAsync(cls) /\ op = "concat" THEN "asyncConcat"
  ELSE IF IsAsync(cls) /\ op = "zip" THEN "asyncZip"
  ELSE IF IsAsync(cls) /\ op = "flatMap" THEN "asyncFlatMap"
  ELSE op

\* LazyStream.stream(): this.pipeline.reduce((acc, operation) => operation(acc),
\* this.source).  Each stage call creates a fresh generator object; a concat or
\* zip stage first calls stream() on the streams it closes over.
Compose(h, o, k, acc) ==
  IF k > Len(h.objs[o].pipeline) THEN [h |-> h, ref |-> acc]
  ELSE Only({ Compose(h2, o, k + 1, GenRef(Len(h2.gens)))
              : h2 \in { NewGen(rs.h, Helper(h.objs[o].cls, h.objs[o].pipeline[k].op),
                                h.objs[o].pipeline[k].a, <<acc>> \o rs.refs)
                         : rs \in {StreamAll(h, h.objs[o].pipeline[k].oth, 1, <<>>)} } })

StreamAll(h, oth, i, refs) ==
  IF i > Len(oth) THEN [h |-> h, refs |-> refs]
  ELSE Only({ StreamAll(r.h, oth, i + 1, Append(refs, r.ref))
              : r \in {stream(h, oth[i])} })

\* AsyncLazyStream.stream() is an async generator: calling it only creates the
\* generator object; its body (the loop over this.pipeline, then yield* result)
\* runs at the first next().
stream(h, o) ==
  IF h.objs[o].cls = "AsyncLazyStream"
    THEN [h |-> NewGen(h, "stream", o, <<>>), ref |-> GenRef(Len(h.gens) + 1)]
    ELSE Compose(h, o, 1, h.objs[o].iterable)

\* The first next() on that generator object: the loop over this.pipeline.
Started(h, g) ==
  IF h.gens[g].st # "start" THEN h
  ELSE Only({ [c.h EXCEPT !.gens[g].ups = <<c.ref>>, !.gens[g].pos = <<0>>,
                          !.gens[g].st = "run"]
              : c \in {Compose(h, h.gens[g].a, 1, h.objs[h.gens[g].a].iterable)} })

streamAsync(h, g) ==
  Only({
       IF NoResult(r) THEN r
       ELSE IF r.st = "done" THEN Return(r.h, g)
       ELSE Yield(r.h, g, r.val)
    : r \in {PullUp(Started(h, g), g, 1)} })

\* The adapter toAsync() wraps a sync iterable in: an async generator handing
\* on its elements in order, adding no wait of its own.
toAsyncAdapter(h, g) ==
  Only({
       IF NoResult(r) THEN r
       ELSE IF r.st = "done" THEN Return(r.h, g)
       ELSE Yield(r.h, g, r.val)
    : r \in {PullUp(h, g, 1)} })

\* next() on the generator object g.
\* A generator whose body an exception has left is completed: every later
\* next() reports done.
PullGen(h, g) ==
  LET G == h.gens[g] IN
  IF G.st = "done" THEN Finished(h, 0)
  ELSE Only({ IF r.st = "throw" THEN [r EXCEPT !.h.gens[g].st = "done"] ELSE r : r \in {
       CASE G.op = "map" -> map(h, g)
         [] G.op = "filter" -> filter(h, g)
         [] G.op = "take" -> take(h, g)
         [] G.op = "skip" -> skip(h, g)
         [] G.op = "concat" -> concat(h, g)
         [] G.op = "zip" -> zip(h, g)
         [] G.op = "tap" -> tap(h, g)
         [] G.op = "flatMap" -> flatMap(h, g)
         [] G.op = "asyncFlatMap" -> asyncFlatMap(h, g)
         [] G.op = "asyncTake" -> asyncTake(h, g)
         [] G.op = "asyncConcat" -> asyncConcat(h, g)
         [] G.op = "asyncZip" -> asyncZip(h, g)
         [] G.op = "stream" -> streamAsync(h, g)
         [] G.op = "toAsync" -> toAsyncAdapter(h, g) } })

\* next() on an iterator over the iterable ref.
PullRef(h, ref, pos) ==
  IF ref.k = "src" THEN SrcNext(h, ref.id, pos)
  ELSE [PullGen(h, ref.id) EXCEPT !.pos = pos]


\* ------------------------------------------------- objects and chain calls
Obj(cls, iterable) == [cls |-> cls, iterable |-> iterable, pipeline |-> <<>>]

\* LazyStream / AsyncLazyStream: this.pipeline.push(operation); return this
addOperation(h, o, stg) ==
  [h |-> [h EXCEPT !.objs[o].pipeline = Append(@, stg)], ret |-> o]

\* A wrap whose helper is an ordinary function: it runs up to its first element
\* when it is called instead of when it is first pulled.
wrapEager(h, o, stg) ==
  LET O == h.objs[o]
      ups == <<O.iterable>> \o [i \in DOMAIN stg.oth |-> h.objs[stg.oth[i]].iterable]
  IN  [h |-> PullGen([NewGen(h, Helper(O.cls, stg.op), stg.a, ups)
                        EXCEPT !.objs = Append(@, Obj(O.cls, GenRef(Len(h.gens) + 1)))],
                     Len(h.gens) + 1).h,
       ret |-> Len(h.objs) + 1]

\* SyncSequence / AsyncSequence: return new SyncSequence(op(this.iterable, a, ...)).
\* Calling the generator function op creates a suspended generator object.
wrap(h, o, stg) ==
  LET O == h.objs[o]
      ups == <<O.iterable>> \o [i \in DOMAIN stg.oth |-> h.objs[stg.oth[i]].iterable]
  IN  [h |-> [NewGen(h, Helper(O.cls, stg.op), stg.a, ups)
                EXCEPT !.objs = Append(@, Obj(O.cls, GenRef(Len(h.gens) + 1)))],
       ret |-> Len(h.objs) + 1]

NoCall == [recv |-> 0, before |-> <<>>, ret |-> 0, op |-> "", a |-> 0, results |-> <<>>]

\* o.op(a, ...oth): one of map, filter, flatMap, take, skip, concat, zip, tap
ChainCall(o, op, a, oth) ==
  /\ \E r \in { IF IsStaged(objs[o].cls)
                   THEN addOperation(Heap, o, Stage(op, a, oth))
                   ELSE wrap(Heap, o, Stage(op, a, oth)) } :
       /\ Commit(r.h)
       /\ aux' = [aux EXCEPT !.recv = o, !.before = objs[o].pipeline,
                             !.ret = r.ret, !.op = op, !.a = a]
  /\ UNCHANGED <<srcs, ready, cons, rest>>

\* ---------------------------------------------------------------- consumers
\* failed: a next() of the loop threw; lenAtFail: what it had received by then.
Consumer(ref) ==
  [ref |-> ref, pos |-> 0, out |-> <<>>, done |-> FALSE, n |-> 0,
   failed |-> FALSE, lenAtFail |-> 0]

\* for (const x of seq) on a Sync/AsyncSequence: seq[Symbol.iterator]() is
\* this.iterable[Symbol.iterator]()
Iterate(o) ==
  /\ ~IsStaged(objs[o].cls)
  /\ cons' = Append(cons, Consumer(objs[o].iterable))
  /\ UNCHANGED <<srcs, spos, sclosed, pulled, ended, ready, gens, objs, calls, log, aux, rest>>

\* for (const x of s.stream()) on a LazyStream / AsyncLazyStream
Stream(o) ==
  /\ IsStaged(objs[o].cls)
  /\ \E r \in {stream(Heap, o)} :
       /\ Commit(r.h)
       /\ cons' = Append(cons, Consumer(r.ref))
  /\ UNCHANGED <<srcs, ready, aux, rest>>

\* One iteration of the consumer's loop: next() on its iterator.
Pull(c) ==
  /\ ~cons[c].done
  /\ \E r \in {PullRef(Heap, cons[c].ref, cons[c].pos)} :
       /\ r.st # "blocked"
       /\ Commit(r.h)
       /\ cons' = [cons EXCEPT ![c].pos = r.pos, ![c].n = @ + 1,
                               ![c].out = IF r.st = "val" THEN Append(@, r.val) ELSE @,
                               ![c].done = (r.st = "done"),
                               ![c].failed = @ \/ r.st = "throw",
                               ![c].lenAtFail = IF r.st = "throw" /\ ~cons[c].failed
                                                  THEN Len(cons[c].out) ELSE @]
  /\ UNCHANGED <<srcs, ready, aux, rest>>

\* ------------------------------------------------------ terminal operations
\* A for...of loop run to its end: next() until done, the loop body (the user's
\* action or reducer, when there is one) after each element.
RECURSIVE Drain(_, _, _, _, _)
Drain(h, ref, pos, out, body) ==
  Only({
       IF r.st = "val" /\ body # "" /\ Throws(body, r.val)
         THEN [h |-> Close(Call(r.h, body, r.val), ref), out |-> Append(out, r.val),
               st |-> "throw"]
       ELSE IF r.st = "val"
         THEN Drain(IF body = "" THEN r.h ELSE Call(r.h, body, r.val),
                    ref, r.pos, Append(out, r.val), body)
         ELSE [h |-> r.h, out |-> out, st |-> r.st]
    : r \in {PullRef(h, ref, pos)} })

RECURSIVE Sum(_)
Sum(q) == IF q = <<>> THEN 0 ELSE Head(q) + Sum(Tail(q))

\* The iterable a terminal operation of o loops over: this.stream() for the
\* staged classes, this.iterable for the wrapping ones.
Materialize(h, o) ==
  IF IsStaged(h.objs[o].cls) THEN stream(h, o)
  ELSE [h |-> h, ref |-> h.objs[o].iterable]

\* forEach(action): for (const item of this.stream()) action(item)
forEach(h, o) ==
  Only({ Drain(m.h, m.ref, 0, <<>>, "forEach") : m \in {Materialize(h, o)} })

\* reduce(reducer, initialValue): result = reducer(result, item) per item;
\* the driver's reducer is (acc, x) => acc + x from 0.
reduce(h, o) ==
  Only({ Drain(m.h, m.ref, 0, <<>>, "reduce") : m \in {Materialize(h, o)} })

\* The generator objects a finished terminal operation made are unreachable.
Collect(h) == [h EXCEPT !.gens = SubSeq(@, 1, Len(gens))]

ForEach(o) ==
  /\ IsStaged(objs[o].cls)
  /\ \E d \in {forEach(Heap, o)} :
       /\ d.st \in {"done", "throw"}
       /\ Commit(Collect(d.h))
       /\ aux' = [aux EXCEPT !.results = Append(@, [op |-> "forEach", o |-> o,
                                                     out |-> d.out, val |-> 0,
                                                     st |-> d.st])]
  /\ UNCHANGED <<srcs, ready, cons, rest>>

Reduce(o) ==
  /\ \E d \in {reduce(Heap, o)} :
       /\ d.st \in {"done", "throw"}
       /\ Commit(Collect(d.h))
       /\ aux' = [aux EXCEPT !.results = Append(@, [op |-> "reduce", o |-> o,
                                                     out |-> d.out, val |-> Sum(d.out),
                                                     st |-> d.st])]
  /\ UNCHANGED <<srcs, ready, cons, rest>>

\* ----------------------------------------------------------- initial states
RECURSIVE Seqs(_, _)
Seqs(S, n) == IF n = 0 THEN {<<>>}
              ELSE Seqs(S, n - 1) \cup {Append(q, x) : q \in Seqs(S, n - 1), x \in S}

Classes == {"SyncSequence", "AsyncSequence", "LazyStream", "AsyncLazyStream"}

Source(kind, items) == [kind |-> kind, items |-> items]

\* A finite source counting up from 1, as an array or as a generator object,
\* or the unbounded generator 1, 2, 3, ...
Counting == {Source(k, [i \in 1..n |-> i]) : k \in {"array", "gen"}, n \in 0..MaxLen}
              \cup {Source("inf", <<>>)}

\* The sources a class accepts: Iterable<T> for the sync classes,
\* AsyncIterable<T> (a generator object) for the async ones.
Accepts(cls, S) == IsAsync(cls) => S.kind # "array"

\* The chain methods a class has: SyncSequence has no flatMap.
Offers(cls, op) == cls = "SyncSequence" => op # "flatMap"

NoFlatten == [impl |-> "", input |-> <<>>, depth |-> 0, out |-> <<>>, done |-> FALSE]

InitWith(ss, os) ==
  /\ srcs = ss
  /\ spos = [s \in DOMAIN ss |-> 0]
  /\ sclosed = [s \in DOMAIN ss |-> FALSE]
  /\ pulled = [s \in DOMAIN ss |-> 0]
  /\ ended = [s \in DOMAIN ss |-> FALSE]
  /\ ready = [s \in DOMAIN ss |-> TRUE]
  /\ gens = <<>>
  /\ objs = os
  /\ calls = 0
  /\ log = <<>>
  /\ cons = <<>>
  /\ aux = NoCall
  /\ fl = NoFlatten
  /\ conv = <<>>
  /\ faults = {} /\ run = NoRun /\ ctl = NoCtl

\* ------------------------------------------------- take(n) over one source
InitTake ==
  \E S \in Counting, cls \in Classes :
    /\ Accepts(cls, S)
    /\ InitWith(<<S>>, <<Obj(cls, SrcRef(1))>>)

NextTake ==
  \/ \E n \in 0..MaxN : aux.ret = 0 /\ ChainCall(1, "take", n, <<>>)
  \/ aux.ret # 0 /\ cons = <<>> /\ Iterate(aux.ret)
  \/ aux.ret # 0 /\ cons = <<>> /\ Stream(aux.ret)
  \/ \E c \in DOMAIN cons : Pull(c)

SpecTake == InitTake /\ [][NextTake]_vars

\* C1: once a consumer of take(n) has seen it report exhaustion, the pull
\* counter of the upstream source is at most n.
C1_TakePullsAtMostN ==
  \A c \in DOMAIN cons : cons[c].done => pulled[1] <= aux.a


\* --------------------------------------- building and consuming pipelines
MaxCalls == 2        \* chain calls made by the driver
MaxTerms == 1        \* terminal operations (forEach / reduce) run by the driver

\* The chain calls the driver makes: <<operator, argument, other streams>>.
ChainOps ==
  { <<"map", "x2", <<>>>>, <<"filter", "odd", <<>>>>, <<"flatMap", "xhalf", <<>>>>,
    <<"take", 1, <<>>>>, <<"skip", 1, <<>>>>, <<"tap", "t", <<>>>>,
    <<"concat", 0, <<2>>>>, <<"zip", 0, <<2>>>> }

\* The operator that produced what o now yields ("" for a bare source).
LastOp(o) ==
  IF objs[o].pipeline # <<>> THEN objs[o].pipeline[Len(objs[o].pipeline)].op
  ELSE IF objs[o].iterable.k = "gen" THEN gens[objs[o].iterable.id].op
  ELSE ""

NCalls == Len(gens) + Len(objs[1].pipeline)

Init ==
  \E k \in {"array", "gen"}, cls \in Classes :
    /\ Accepts(cls, Source(k, <<>>))
    /\ InitWith(<<Source(k, [i \in 1..MaxLen |-> i]), Source(k, [i \in 1..MaxLen |-> i + 1])>>,
                <<Obj(cls, SrcRef(1)), Obj(cls, SrcRef(2))>>)

Build ==
  \E o \in DOMAIN objs, c \in ChainOps :
    /\ o # 2
    /\ cons = <<>>
    /\ aux.results = <<>>
    /\ Len(gens) + Len(objs[1].pipeline) < MaxCalls
    /\ LastOp(o) \notin {"zip", "asyncZip"}
    /\ c[1] = "flatMap" => LastOp(o) = "map"
    /\ Offers(objs[o].cls, c[1])
    /\ ChainCall(o, c[1], c[2], c[3])

Next ==
  \/ Build
  \/ \E o \in DOMAIN objs : cons = <<>> /\ aux.results = <<>> /\ Iterate(o)
  \/ \E o \in DOMAIN objs : cons = <<>> /\ aux.results = <<>> /\ Stream(o)
  \/ \E c \in DOMAIN cons : Pull(c)
  \/ \E o \in DOMAIN objs : cons = <<>> /\ Len(aux.results) < MaxTerms /\ ForEach(o)
  \/ \E o \in DOMAIN objs : /\ cons = <<>> /\ Len(aux.results) < MaxTerms
                             /\ LastOp(o) \notin {"zip", "asyncZip"}
                             /\ Reduce(o)

Spec == Init /\ [][Next]_vars


\* C2: a chain call on a LazyStream / AsyncLazyStream returns a new pipeline
\* value and leaves the stage list of its receiver as it was before the call.
C2_ChainCallLeavesReceiver ==
  (aux.ret # 0 /\ IsStaged(objs[aux.recv].cls))
    => (aux.ret # aux.recv /\ objs[aux.recv].pipeline = aux.before)

\* C3: as long as no consumer has pulled and no terminal operation has run,
\* however many objects were constructed and chain calls made, no source has
\* been pulled, no user callback has been invoked and no generator body entered.
NothingPulled ==
  /\ \A c \in DOMAIN cons : cons[c].n = 0
  /\ aux.results = <<>>

C3_NoWorkBeforePull ==
  NothingPulled =>
    /\ \A x \in DOMAIN srcs : pulled[x] = 0 /\ spos[x] = 0 /\ ~ended[x] /\ ~sclosed[x]
    /\ calls = 0
    /\ log = <<>>
    /\ \A g \in DOMAIN gens : gens[g].st = "start"

\* Two chain calls made, the second a map, an iteration opened, nothing pulled.
C3_Witness ==
  /\ NothingPulled
  /\ cons # <<>>
  /\ aux.op = "map"
  /\ NCalls >= 2


\* ------------------------------------------------ concat and zip of sources
MaxJoin == 2         \* longest sequence handed to concat / zip

Prefix(q, n) == SubSeq(q, 1, n)
IsPrefix(p, q) == Len(p) <= Len(q) /\ p = SubSeq(q, 1, Len(p))

\* Three sources with elements that tell them apart: 1.., 11.., 21..
InitJoin ==
  \E k \in {"array", "gen"}, cls \in Classes,
     la \in 0..MaxJoin, lb \in 0..MaxJoin, lc \in 0..1 :
    /\ Accepts(cls, Source(k, <<>>))
    /\ InitWith(<<Source(k, [i \in 1..la |-> i]),
                  Source(k, [i \in 1..lb |-> 10 + i]),
                  Source(k, [i \in 1..lc |-> 20 + i])>>,
                <<Obj(cls, SrcRef(1)), Obj(cls, SrcRef(2)), Obj(cls, SrcRef(3))>>)

\* An async source gets its next element ready (a timer fires, a reply comes
\* in), or has none ready for the moment.
Arrive(x) ==
  /\ IsAsync(objs[1].cls)
  /\ ~ready[x]
  /\ ready' = [ready EXCEPT ![x] = TRUE]
  /\ UNCHANGED <<srcs, spos, sclosed, pulled, ended, gens, objs, calls, log, cons, aux, rest>>

Wait(x) ==
  /\ IsAsync(objs[1].cls)
  /\ ready[x]
  /\ ~ended[x]
  /\ ready' = [ready EXCEPT ![x] = FALSE]
  /\ UNCHANGED <<srcs, spos, sclosed, pulled, ended, gens, objs, calls, log, cons, aux, rest>>

NextJoin ==
  \/ \E oth \in {<<2>>, <<2, 3>>} : aux.ret = 0 /\ ChainCall(1, "concat", 0, oth)
  \/ aux.ret = 0 /\ ChainCall(1, "zip", 0, <<2>>)
  \/ aux.ret # 0 /\ cons = <<>> /\ Iterate(aux.ret)
  \/ aux.ret # 0 /\ cons = <<>> /\ Stream(aux.ret)
  \/ \E c \in DOMAIN cons : Pull(c)
  \/ \E x \in DOMAIN srcs : Arrive(x)
  \/ \E x \in DOMAIN srcs : Wait(x)

SpecJoin == InitJoin /\ [][NextJoin]_vars

\* The iterables the concat / zip generator was handed, as source numbers.
Joined == IF gens = <<>> \/ ~(\E g \in DOMAIN gens : gens[g].op # "stream") THEN <<>>
          ELSE LET g == CHOOSE g \in DOMAIN gens : gens[g].op # "stream"
               IN  [j \in DOMAIN gens[g].ups |-> gens[g].ups[j].id]

RECURSIVE Flat(_)
Flat(qq) == IF qq = <<>> THEN <<>> ELSE Head(qq) \o Flat(Tail(qq))

\* C4: concat pulls nothing from a later sequence, and emits nothing of it,
\* before every earlier sequence has reported exhaustion -- also while an
\* earlier async source has nothing ready and a later one has.
C4_ConcatInOrder ==
  aux.op = "concat" =>
    /\ \A i, j \in DOMAIN srcs :
         (i < j /\ (pulled[j] > 0 \/ ended[j])) => ended[i]
    /\ \A c \in DOMAIN cons :
         /\ IsPrefix(cons[c].out, Flat([j \in DOMAIN Joined |-> srcs[Joined[j]].items]))
         /\ \A j \in DOMAIN srcs :
              (\E i \in DOMAIN cons[c].out : cons[c].out[i] \in {y + 10 * (j - 1) : y \in 1..9})
                => \A i \in 1..(j - 1) : ended[i]

\* concat has emitted A's first element and waits for A's next one while B
\* has an element ready.
C4_Witness ==
  /\ aux.op = "concat"
  /\ IsAsync(objs[1].cls)
  /\ \E c \in DOMAIN cons : Len(cons[c].out) = 1 /\ ~cons[c].done
  /\ Len(srcs[1].items) > 1 /\ Len(srcs[2].items) > 0
  /\ ~ready[1] /\ ready[2] /\ ~ended[1]

Min(a, b) == IF a < b THEN a ELSE b

\* C5: zip(a, b) emits the pairs (a[i], b[i]) in order, exactly
\* min(len(a), len(b)) of them, and reports exhaustion on the very pull on
\* which one side first reports it.
C5_ZipPairs ==
  aux.op = "zip" =>
    \A c \in DOMAIN cons :
      LET n == Min(Len(srcs[1].items), Len(srcs[2].items))
          want == [i \in 1..n |-> <<srcs[1].items[i], srcs[2].items[i]>>]
      IN  /\ IsPrefix(cons[c].out, want)
          /\ Len(cons[c].out) = Min(cons[c].n, n)
          /\ cons[c].done <=> cons[c].n = n + 1
          /\ cons[c].done => cons[c].out = want

\* zip of two non-empty sides of different lengths, consumed to its end.
C5_Witness ==
  /\ aux.op = "zip"
  /\ \E c \in DOMAIN cons : cons[c].done /\ Len(cons[c].out) > 0
  /\ Len(srcs[1].items) # Len(srcs[2].items)


-----------------------------------------------------------------------------
\* flatten.  A nested input is a sequence of items; an item is a plain value
\* or an iterable holding items.  k is what the item answers to: "num" has
\* neither iterator, "sync" has Symbol.iterator, "async" has
\* Symbol.asyncIterator; "str" is a string of v characters, which has
\* Symbol.iterator and hands out its characters, each a string of length 1.

Num(n)     == [k |-> "num",   v |-> n, items |-> <<>>]
SyncOf(q)  == [k |-> "sync",  v |-> 1, items |-> q]
AsyncOf(q) == [k |-> "async", v |-> 1, items |-> q]
Str(n)     == [k |-> "str",   v |-> n, items |-> <<>>]

\* What iterating the item hands out.
Elements(item) == IF item.k = "str" THEN [i \in 1..item.v |-> Str(1)] ELSE item.items

\* `item &&`: of the values modelled the number 0 and the empty string are falsy.
Truthy(item) == item.k \in {"num", "str"} => item.v # 0
HasIterator(item)      == item.k \in {"sync", "str"}
HasAsyncIterator(item) == item.k = "async"

\* depth is a number or Infinity; Infinity > 0 and Infinity - 1 = Infinity.
Infinity == -1
Positive(depth) == depth = Infinity \/ depth > 0
Minus1(depth)   == IF depth = Infinity THEN Infinity ELSE depth - 1

RECURSIVE flattenKeepDepth(_, _)
flattenKeepDepth(iter, depth) ==
  IF iter = <<>> THEN <<>>
  ELSE (IF Positive(depth) /\ Truthy(Head(iter)) /\ HasIterator(Head(iter))
          THEN flattenKeepDepth(Elements(Head(iter)), depth)
          ELSE <<Head(iter)>>)
       \o flattenKeepDepth(Tail(iter), depth)

\* LazyStream's flatten: everything the generator yields, in order.
RECURSIVE flatten(_, _)
flatten(iter, depth) ==
  IF iter = <<>> THEN <<>>
  ELSE (IF Positive(depth) /\ Truthy(Head(iter)) /\ HasIterator(Head(iter))
          THEN flatten(Elements(Head(iter)), Minus1(depth))
          ELSE <<Head(iter)>>)
       \o flatten(Tail(iter), depth)

\* The async pair: syncFlatten walks a sync iterable, asyncFlatten an async
\* one; both descend into either kind.
RECURSIVE syncFlatten(_, _), asyncFlatten(_, _)
syncFlatten(iter, depth) ==
  IF iter = <<>> THEN <<>>
  ELSE (IF Positive(depth) /\ Truthy(Head(iter)) /\ HasAsyncIterator(Head(iter))
          THEN asyncFlatten(Elements(Head(iter)), Minus1(depth))
        ELSE IF Positive(depth) /\ Truthy(Head(iter)) /\ HasIterator(Head(iter))
          THEN syncFlatten(Elements(Head(iter)), Minus1(depth))
        ELSE <<Head(iter)>>)
       \o syncFlatten(Tail(iter), depth)

asyncFlatten(iter, depth) ==
  IF iter = <<>> THEN <<>>
  ELSE (IF Positive(depth) /\ Truthy(Head(iter)) /\ HasAsyncIterator(Head(iter))
          THEN asyncFlatten(Elements(Head(iter)), Minus1(depth))
        ELSE IF Positive(depth) /\ Truthy(Head(iter)) /\ HasIterator(Head(iter))
          THEN syncFlatten(Elements(Head(iter)), Minus1(depth))
        ELSE <<Head(iter)>>)
       \o asyncFlatten(Tail(iter), depth)

\* The flatten of the class the call is made on.
Flatten(impl, iter, depth) ==
  IF impl = "LazyStream" THEN flatten(iter, depth) ELSE asyncFlatten(iter, depth)

\* Inputs: every nested input of at most MaxNodes items in all (containers
\* counted), over the plain values 0 and 1, and the input [[1,2],[3,[4,5]],6].
MaxNodes == 4
MaxDepth == 3

Plain == {Num(0), Num(1)}

RECURSIVE Forest(_), Tree(_)
Forest(n) ==
  IF n = 0 THEN {<<>>}
  ELSE UNION { {<<t>> \o f : t \in Tree(k), f \in Forest(n - k)} : k \in 1..n }
Tree(n) ==
  IF n = 1 THEN Plain \cup {SyncOf(<<>>), AsyncOf(<<>>)}
  ELSE UNION { {SyncOf(f), AsyncOf(f)} : f \in Forest(n - 1) }

Nested123456 ==
  <<SyncOf(<<Num(1), Num(2)>>), SyncOf(<<Num(3), SyncOf(<<Num(4), Num(5)>>)>>), Num(6)>>

Inputs == UNION { Forest(n) : n \in 0..MaxNodes } \cup {Nested123456}

InitFlatten ==
  /\ srcs = <<>> /\ spos = <<>> /\ sclosed = <<>> /\ pulled = <<>>
  /\ ended = <<>> /\ ready = <<>> /\ gens = <<>> /\ objs = <<>>
  /\ calls = 0 /\ log = <<>> /\ cons = <<>> /\ aux = NoCall /\ conv = <<>> /\ faults = {} /\ run = NoRun /\ ctl = NoCtl
  /\ \E impl \in {"LazyStream", "AsyncSequence"}, input \in Inputs,
        depth \in 0..MaxDepth \cup {Infinity} :
       fl = [impl |-> impl, input |-> input, depth |-> depth,
             out |-> <<>>, done |-> FALSE]

\* One pull on the flatten generator: its next element, or exhaustion.
FlattenPull ==
  /\ fl.impl # "" /\ ~fl.done
  /\ \E all \in {Flatten(fl.impl, fl.input, fl.depth)} :
       fl' = IF Len(fl.out) < Len(all)
               THEN [fl EXCEPT !.out = Append(@, all[Len(fl.out) + 1])]
               ELSE [fl EXCEPT !.done = TRUE]
  /\ UNCHANGED <<srcs, spos, sclosed, pulled, ended, ready, gens, objs, calls, log, cons, aux, conv, faults, run, ctl>>

NextFlatten == FlattenPull

SpecFlatten == InitFlatten /\ [][NextFlatten]_vars

\* What flatten is to produce, stated without a depth counter: one level of
\* unwrapping, repeated; and the leaves in depth-first order.
RECURSIVE Unwrap1(_)
Unwrap1(q) ==
  IF q = <<>> THEN <<>>
  ELSE (IF Head(q).k = "num" THEN <<Head(q)>> ELSE Head(q).items) \o Unwrap1(Tail(q))

RECURSIVE UnwrapN(_, _)
UnwrapN(q, d) == IF d = 0 THEN q ELSE UnwrapN(Unwrap1(q), d - 1)

RECURSIVE Leaves(_)
Leaves(q) ==
  IF q = <<>> THEN <<>>
  ELSE (IF Head(q).k = "num" THEN <<Head(q)>> ELSE Leaves(Head(q).items)) \o Leaves(Tail(q))

RECURSIVE HasAsync(_)
HasAsync(q) ==
  /\ q # <<>>
  /\ \/ Head(q).k = "async"
     \/ HasAsync(Head(q).items)
     \/ HasAsync(Tail(q))

RECURSIVE Height(_)
Height(q) ==
  IF q = <<>> THEN 0
  ELSE LET a == IF Head(q).k = "num" THEN 0 ELSE 1 + Height(Head(q).items)
           b == Height(Tail(q))
       IN  IF a > b THEN a ELSE b

C7_FlattenMixed ==
  fl.depth = Infinity =>
    /\ \A i \in DOMAIN fl.out : fl.out[i].k = "num"
    /\ IsPrefix(fl.out, Leaves(fl.input))
    /\ fl.done => fl.out = Leaves(fl.input)

\* C7 for the async flatten alone, which the code does satisfy.
C7_AsyncFlattenMixed ==
  (fl.depth = Infinity /\ fl.impl = "AsyncSequence") =>
    /\ \A i \in DOMAIN fl.out : fl.out[i].k = "num"
    /\ IsPrefix(fl.out, Leaves(fl.input))
    /\ fl.done => fl.out = Leaves(fl.input)


-----------------------------------------------------------------------------
\* The conversions between the sync and the async sequence.
MaxObjs == 4         \* sequence objects in one chain of conversions

\* SyncSequence.toAsync(): an AsyncSequence over the adapter.
toAsync(h, o) ==
  [h |-> [NewGen(h, "toAsync", 0, <<h.objs[o].iterable>>)
            EXCEPT !.objs = Append(@, Obj("AsyncSequence", GenRef(Len(h.gens) + 1)))],
   ret |-> Len(h.objs) + 1]

\* A toSync() call as it starts: results = [], the iterator of this.iterable.
\* failed: the loop's next() threw, and the call rejected.
ToSyncCall(o) ==
  [o |-> o, ref |-> objs[o].iterable, pos |-> 0, results |-> <<>>, ret |-> 0,
   failed |-> FALSE]

\* The array `results` becoming the iterable of a new SyncSequence.
NewSyncSequence(h) ==
  [h EXCEPT !.objs = Append(@, Obj("SyncSequence", SrcRef(Len(h.spos) + 1))),
            !.spos = Append(@, 0), !.sclosed = Append(@, FALSE),
            !.pulled = Append(@, 0), !.ended = Append(@, FALSE)]

\* toSync that resolves with what it has when the source has nothing ready.
toSyncPartial(h, c) ==
  Only({
       IF r.st = "val"
         THEN [h |-> r.h, c |-> [c EXCEPT !.pos = r.pos, !.results = Append(@, r.val)],
               st |-> "loop"]
         ELSE [h |-> NewSyncSequence(r.h), c |-> [c EXCEPT !.ret = Len(r.h.objs) + 1],
               st |-> "return"]
    : r \in {PullRef(h, c.ref, c.pos)} })

\* toSync that puts each element at the front of results.
toSyncUnshift(h, c) ==
  Only({
       IF r.st = "blocked" THEN [h |-> h, c |-> c, st |-> "blocked"]
       ELSE IF r.st = "val"
         THEN [h |-> r.h, c |-> [c EXCEPT !.pos = r.pos, !.results = <<r.val>> \o @],
               st |-> "loop"]
         ELSE [h |-> NewSyncSequence(r.h), c |-> [c EXCEPT !.ret = Len(r.h.objs) + 1],
               st |-> "return"]
    : r \in {PullRef(h, c.ref, c.pos)} })

\* One turn of toSync's loop: for await (const item of this) results.push(item);
\* after the loop, return new SyncSequence(results).
toSync(h, c) ==
  Only({
       IF r.st = "blocked" THEN [h |-> h, c |-> c, st |-> "blocked"]
       ELSE IF r.st = "throw" THEN [h |-> r.h, c |-> [c EXCEPT !.failed = TRUE], st |-> "throw"]
       ELSE IF r.st = "val"
         THEN [h |-> r.h, c |-> [c EXCEPT !.pos = r.pos, !.results = Append(@, r.val)],
               st |-> "loop"]
         ELSE [h |-> NewSyncSequence(r.h), c |-> [c EXCEPT !.ret = Len(r.h.objs) + 1],
               st |-> "return"]
    : r \in {PullRef(h, c.ref, c.pos)} })

ToAsync(o) ==
  /\ objs[o].cls = "SyncSequence"
  /\ \E r \in {toAsync(Heap, o)} : Commit(r.h)
  /\ UNCHANGED <<srcs, ready, cons, aux, rest>>

ToSync(o) ==
  /\ objs[o].cls = "AsyncSequence"
  /\ conv' = Append(conv, ToSyncCall(o))
  /\ UNCHANGED <<srcs, spos, sclosed, pulled, ended, ready, gens, objs, calls, log, cons, aux,
                 fl, faults, run, ctl>>

ToSyncNext(i) ==
  /\ conv[i].ret = 0 /\ ~conv[i].failed
  /\ \E r \in {toSync(Heap, conv[i])} :
       /\ r.st # "blocked"
       /\ Commit(r.h)
       /\ conv' = [conv EXCEPT ![i] = r.c]
       /\ srcs' = IF r.st = "return" THEN Append(srcs, Source("array", r.c.results)) ELSE srcs
       /\ ready' = IF r.st = "return" THEN Append(ready, TRUE) ELSE ready
  /\ UNCHANGED <<cons, aux, fl, faults, run, ctl>>

\* One source, finite or unbounded, under a sync or an async sequence.
InitBridge ==
  \E S \in Counting, cls \in {"SyncSequence", "AsyncSequence"} :
    /\ Accepts(cls, S)
    /\ InitWith(<<S>>, <<Obj(cls, SrcRef(1))>>)

\* The newest object, which nothing has consumed or converted yet.
Unused(o) ==
  /\ o = Len(objs)
  /\ cons = <<>>
  /\ \A i \in DOMAIN conv : conv[i].o # o

NextBridge ==
  \/ \E o \in DOMAIN objs : Unused(o) /\ Len(objs) < MaxObjs /\ ToAsync(o)
  \/ \E o \in DOMAIN objs : Unused(o) /\ Len(objs) < MaxObjs /\ ToSync(o)
  \/ \E i \in DOMAIN conv : ToSyncNext(i)
  \/ \E o \in DOMAIN objs : Unused(o) /\ Iterate(o)
  \/ \E c \in DOMAIN cons : Pull(c)
  \/ \E x \in DOMAIN srcs : Arrive(x)
  \/ \E x \in DOMAIN srcs : Wait(x)

SpecBridge == InitBridge /\ [][NextBridge]_vars

\* The source an iterable draws from, through the generators in between.
RECURSIVE Root(_)
Root(ref) == IF ref.k = "src" THEN ref.id ELSE Root(gens[ref.id].ups[1])

\* What source s has emitted so far.
Emitted(s) ==
  IF srcs[s].kind = "inf" THEN [i \in 1..pulled[s] |-> i]
  ELSE SubSeq(srcs[s].items, 1, pulled[s])

\* C8: a toSync() call holds in its buffer exactly what its source has emitted
\* so far, in order; it has completed only if the source has reported
\* exhaustion, and the SyncSequence it returned is then over exactly the
\* elements the source emitted; on the unbounded source it has not completed.
C8_ToSyncDrains ==
  \A i \in DOMAIN conv :
    /\ conv[i].results = Emitted(Root(conv[i].ref))
    /\ conv[i].ret # 0 =>
         /\ ended[Root(conv[i].ref)]
         /\ srcs[Root(conv[i].ref)].kind # "inf"
         /\ objs[conv[i].ret].cls = "SyncSequence"
         /\ objs[conv[i].ret].iterable.k = "src"
         /\ srcs[objs[conv[i].ret].iterable.id] =
              Source("array", srcs[Root(conv[i].ref)].items)
    /\ srcs[Root(conv[i].ref)].kind = "inf" => conv[i].ret = 0

\* toSync() on an async source of several elements has completed.
C8_Witness ==
  /\ objs[1].cls = "AsyncSequence"
  /\ \E i \in DOMAIN conv : conv[i].ret # 0 /\ Len(conv[i].results) >= 2

\* C9: over a finite source, every SyncSequence that a chain of toAsync() and
\* toSync() conversions arrives at holds the elements of the first sequence in
\* their order, none dropped or repeated, and so does what a consumer of the
\* chain's last sequence receives.
C9_RoundTrip ==
  (srcs[1].kind # "inf" /\ Len(objs) > 1) =>
    /\ \A i \in DOMAIN conv :
         conv[i].ret # 0 => srcs[objs[conv[i].ret].iterable.id].items = srcs[1].items
    /\ \A c \in DOMAIN cons :
         /\ IsPrefix(cons[c].out, srcs[1].items)
         /\ cons[c].done => cons[c].out = srcs[1].items

\* S.toAsync().toSync() has completed over a sync S of several elements, and
\* the result's toAsync() has been consumed to its end.
C9_Witness ==
  /\ objs[1].cls = "SyncSequence"
  /\ Len(srcs[1].items) >= 2
  /\ \E i \in DOMAIN conv : /\ conv[i].ret # 0
                             /\ conv[i].ref.k = "gen"
                             /\ gens[conv[i].ref.id].op = "toAsync"
  /\ \E c \in DOMAIN cons : cons[c].done /\ cons[c].ref.k = "gen"


-----------------------------------------------------------------------------
\* Terminal operations run again and again on one LazyStream over an array.
MaxStages == 2       \* stages of the pipelines drawn by InitRerun
MaxRuns == 2         \* terminal operations and stream() calls made on the pipeline

\* The stages drawn, as <<operator, argument, other streams>>.
RerunOps ==
  { <<"map", "x2", <<>>>>, <<"filter", "gt5", <<>>>>, <<"flatMap", "xhalf", <<>>>>,
    <<"take", 2, <<>>>>, <<"skip", 1, <<>>>>, <<"concat", 0, <<2>>>> }

\* stream1 of the example: .map(x => x * 2).filter(x => x > 5).flatMap(x => [x, x / 2])
Stream1 == << <<"map", "x2", <<>>>>, <<"filter", "gt5", <<>>>>, <<"flatMap", "xhalf", <<>>>> >>

\* and the one before it, which goes on with .take(3).skip(1).tap(...)
Stream1Tapped == Stream1 \o << <<"take", 3, <<>>>>, <<"skip", 1, <<>>>>, <<"tap", "t", <<>>>> >>

\* x / 2 is \div only on even numbers: a flatMap stage is drawn only where all
\* it receives are the doubles map made.
EvenIn(p) ==
  \A k \in DOMAIN p :
    p[k][1] = "flatMap" =>
      /\ k > 1 /\ p[1][1] = "map"
      /\ \A j \in 1..(k - 1) : p[j][1] \notin {"flatMap", "concat"}

\* new LazyStream([1, 2, 3, 4, 5])
Stream1Len == 5

Pipelines == {p \in Seqs(RerunOps, MaxStages) : EvenIn(p)} \cup {Stream1, Stream1Tapped}

InitRerun ==
  \E n \in {MaxLen, Stream1Len}, p \in Pipelines :
    InitWith(<<Source("array", [i \in 1..n |-> i]), Source("array", <<7, 9>>)>>,
             <<[Obj("LazyStream", SrcRef(1))
                  EXCEPT !.pipeline = [k \in DOMAIN p |-> Stage(p[k][1], p[k][2], p[k][3])]],
               Obj("LazyStream", SrcRef(2))>>)

Runs == Len(aux.results) + Len(cons)

NextRerun ==
  \/ Runs < MaxRuns /\ ForEach(1)
  \/ Runs < MaxRuns /\ Reduce(1)
  \/ Runs < MaxRuns /\ (\A c \in DOMAIN cons : cons[c].done) /\ Stream(1)
  \/ \E c \in DOMAIN cons : Pull(c)

SpecRerun == InitRerun /\ [][NextRerun]_vars

\* The pipeline under test is stream1 of the example, over [1, 2, 3, 4, 5].
IsStream1 ==
  /\ Len(srcs[1].items) = Stream1Len
  /\ [k \in DOMAIN objs[1].pipeline |-> objs[1].pipeline[k].op]
       = [k \in DOMAIN Stream1 |-> Stream1[k][1]]
  /\ \A k \in DOMAIN Stream1 : objs[1].pipeline[k].a = Stream1[k][2]

\* What the stages 1..k of o's pipeline make of o's source, as sequences.
RECURSIVE Output(_, _)
Output(o, k) ==
  IF k = 0 THEN srcs[objs[o].iterable.id].items
  ELSE Only({
         LET stg == objs[o].pipeline[k] IN
         CASE stg.op = "map" -> [i \in DOMAIN q |-> MapFn(stg.a, q[i])]
           [] stg.op = "filter" -> SelectSeq(q, LAMBDA x : PredFn(stg.a, x))
           [] stg.op = "flatMap" -> Flat([i \in DOMAIN q |-> FlatFn(stg.a, q[i])])
           [] stg.op = "take" -> SubSeq(q, 1, Min(stg.a, Len(q)))
           [] stg.op = "skip" -> SubSeq(q, stg.a + 1, Len(q))
           [] stg.op = "tap" -> q
           [] stg.op = "concat" ->
                q \o Flat([j \in DOMAIN stg.oth |->
                             Output(stg.oth[j], Len(objs[stg.oth[j]].pipeline))])
       : q \in {Output(o, k - 1)} })

\* C10: every forEach and reduce that has run on the pipeline, and every
\* stream() consumed so far, in whatever order and however interleaved, has
\* seen the pipeline's complete output computed from the whole source array
\* with the take and skip counts starting at zero; reduce returns its sum.
\* For stream1 of the example that is 6,3,8,4,10,5 and 36 every time.
C10_RerunsFullChain ==
  LET want == Output(1, Len(objs[1].pipeline)) IN
  /\ \A i \in DOMAIN aux.results :
       /\ aux.results[i].out = want
       /\ aux.results[i].op = "reduce" => aux.results[i].val = Sum(want)
  /\ \A c \in DOMAIN cons :
       /\ IsPrefix(cons[c].out, want)
       /\ cons[c].done => cons[c].out = want
  /\ IsStream1 =>
       /\ want = <<6, 3, 8, 4, 10, 5>>
       /\ Sum(want) = 36

\* stream1 of the example: forEach has run, then reduce.
C10_Witness ==
  /\ IsStream1
  /\ Len(aux.results) = 2
  /\ aux.results[1].op = "forEach" /\ aux.results[1].out = <<6, 3, 8, 4, 10, 5>>
  /\ aux.results[2].op = "reduce" /\ aux.results[2].val = 36


-----------------------------------------------------------------------------
\* Two SyncSequence pipelines, each built from a fresh call of one generator
\* function: SyncSequence.from(() => range(1, n)) twice, then the same chain
\* of map / filter calls on each.
MaxChain == 2        \* chain calls per pipeline

\* range(1, 10)
RangeEnd == 10

MapFilterOps ==
  { <<"map", "x2", <<>>>>, <<"filter", "gt5", <<>>>>, <<"filter", "gt10", <<>>>> }

\* How many generator objects lie between an iterable and its source.
RECURSIVE Depth(_)
Depth(ref) == IF ref.k = "src" THEN 0 ELSE 1 + Depth(gens[ref.id].ups[1])

\* The newest sequence object of the pipeline over source s.
Last(s) ==
  CHOOSE o \in DOMAIN objs :
    /\ Root(objs[o].iterable) = s
    /\ \A o2 \in DOMAIN objs :
         Root(objs[o2].iterable) = s => Depth(objs[o2].iterable) <= Depth(objs[o].iterable)

Built(s) == Depth(objs[Last(s)].iterable)

InitTwice ==
  \E n \in (0..MaxLen) \cup {RangeEnd} :
    InitWith(<<Source("gen", [i \in 1..n |-> i]), Source("gen", [i \in 1..n |-> i])>>,
             <<Obj("SyncSequence", SrcRef(1)), Obj("SyncSequence", SrcRef(2))>>)

\* The driver makes a chain call on the first pipeline, then the same call on
\* the second.
BuildFirst ==
  \E c \in MapFilterOps :
    /\ cons = <<>>
    /\ Built(1) = Built(2) /\ Built(1) < MaxChain
    /\ ChainCall(Last(1), c[1], c[2], c[3])

BuildSecond ==
  /\ cons = <<>>
  /\ Built(1) = Built(2) + 1
  /\ ChainCall(Last(2), gens[objs[Last(1)].iterable.id].op,
               gens[objs[Last(1)].iterable.id].a, <<>>)

\* The two for...of loops run interleaved over the short sources, one after
\* the other over range(1, 10).
IterateLast(s) ==
  /\ Built(1) = Built(2)
  /\ \A c \in DOMAIN cons : Root(cons[c].ref) # s
  /\ Len(srcs[s].items) > MaxLen => \A c \in DOMAIN cons : cons[c].done
  /\ Iterate(Last(s))

NextTwice ==
  \/ BuildFirst
  \/ BuildSecond
  \/ \E s \in DOMAIN srcs : IterateLast(s)
  \/ \E c \in DOMAIN cons : Pull(c)

SpecTwice == InitTwice /\ [][NextTwice]_vars

\* What an iterable yields in all, computed on sequences from the chain of
\* helper calls that made it: each stage applied to the whole list before it.
RECURSIVE Applied(_)
Applied(ref) ==
  IF ref.k = "src" THEN srcs[ref.id].items
  ELSE IF gens[ref.id].op = "stream"
    THEN Output(gens[ref.id].a, Len(objs[gens[ref.id].a].pipeline))
  ELSE IF gens[ref.id].op \in {"concat", "asyncConcat"}
    THEN Flat([j \in DOMAIN gens[ref.id].ups |-> Applied(gens[ref.id].ups[j])])
  ELSE Only({
         CASE gens[ref.id].op = "map" -> [i \in DOMAIN q |-> MapFn(gens[ref.id].a, q[i])]
           [] gens[ref.id].op = "filter" -> SelectSeq(q, LAMBDA x : PredFn(gens[ref.id].a, x))
           [] gens[ref.id].op \in {"tap", "toAsync"} -> q
           [] gens[ref.id].op \in {"take", "asyncTake"} ->
                SubSeq(q, 1, Min(gens[ref.id].a, Len(q)))
           [] gens[ref.id].op = "skip" -> SubSeq(q, gens[ref.id].a + 1, Len(q))
           [] gens[ref.id].op \in {"flatMap", "asyncFlatMap"} ->
                Flat([i \in DOMAIN q |-> FlatFn(gens[ref.id].a, q[i])])
       : q \in {Applied(gens[ref.id].ups[1])} })

\* C11: each of the two pipelines emits a prefix of, and once exhausted
\* exactly, the stages applied in chain order to the source list (map
\* elementwise, filter the order-preserving subsequence); so the two outputs
\* are identical.  range(1,10).map(x => x * 2).filter(x => x > 10) yields
\* 12, 14, 16, 18, 20.
C11_FreshPipelinesAgree ==
  /\ \A c \in DOMAIN cons :
       /\ IsPrefix(cons[c].out, Applied(cons[c].ref))
       /\ cons[c].done => cons[c].out = Applied(cons[c].ref)
  /\ \A c, d \in DOMAIN cons :
       (cons[c].done /\ cons[d].done) => cons[c].out = cons[d].out
  /\ \A c \in DOMAIN cons :
       ( /\ cons[c].done
         /\ Len(srcs[1].items) = RangeEnd
         /\ Built(1) = 2
         /\ gens[1].op = "map"
         /\ gens[cons[c].ref.id].op = "filter" /\ gens[cons[c].ref.id].a = "gt10" )
       => cons[c].out = <<12, 14, 16, 18, 20>>

\* Both pipelines of the example have been consumed to their end.
C11_Witness ==
  /\ Len(cons) = 2
  /\ \A c \in DOMAIN cons : cons[c].done /\ cons[c].out = <<12, 14, 16, 18, 20>>


-----------------------------------------------------------------------------
\* A user callback that throws on one argument.
FaultValues == {2, 4}

Callbacks == {"map", "filter", "tap", "flatMap", "forEach", "reduce"}

\* The chain calls of the failing pipelines (zip pairs are handed to no callback).
FailOps == {c \in ChainOps : c[1] # "zip"}

InitFail ==
  \E k \in {"array", "gen"}, cls \in Classes, what \in Callbacks, v \in FaultValues :
    /\ Accepts(cls, Source(k, <<>>))
    /\ IsAsync(cls) \/ k = "array"
    /\ srcs = <<Source(k, [i \in 1..MaxLen |-> i]), Source(k, [i \in 1..MaxLen |-> i + 1])>>
    /\ spos = <<0, 0>> /\ sclosed = <<FALSE, FALSE>> /\ pulled = <<0, 0>>
    /\ ended = <<FALSE, FALSE>> /\ ready = <<TRUE, TRUE>>
    /\ gens = <<>>
    /\ objs = <<Obj(cls, SrcRef(1)), Obj(cls, SrcRef(2))>>
    /\ calls = 0 /\ log = <<>> /\ cons = <<>> /\ aux = NoCall
    /\ fl = NoFlatten /\ conv = <<>>
    /\ faults = {<<what, v>>}
    /\ run = NoRun /\ ctl = NoCtl

\* The sequence the chain of calls has arrived at: the LazyStream itself, or
\* the newest wrapping sequence.
Top == IF IsStaged(objs[1].cls) \/ Len(objs) = 2 THEN 1 ELSE Len(objs)

\* The second sequence has been handed to a concat: over a generator object
\* it can be consumed only once.
Concatenated ==
  \/ \E k \in DOMAIN objs[1].pipeline : objs[1].pipeline[k].op = "concat"
  \/ \E g \in DOMAIN gens : gens[g].op \in {"concat", "asyncConcat"}

BuildFail ==
  \E c \in FailOps :
    /\ cons = <<>>
    /\ aux.results = <<>>
    /\ Len(gens) + Len(objs[1].pipeline) < MaxChain
    /\ c[1] = "flatMap" => LastOp(Top) = "map"
    /\ Offers(objs[Top].cls, c[1])
    /\ c[1] = "concat" => ~Concatenated
    /\ ChainCall(Top, c[1], c[2], c[3])

\* One terminal operation or one for...of loop on the pipeline; the loop's
\* iterator is pulled on after a failure, too.
NextFail ==
  \/ BuildFail
  \/ cons = <<>> /\ aux.results = <<>> /\ Iterate(Top)
  \/ cons = <<>> /\ aux.results = <<>> /\ Stream(1)
  \/ \E c \in DOMAIN cons : Pull(c)
  \/ cons = <<>> /\ aux.results = <<>> /\ ForEach(1)
  \/ cons = <<>> /\ aux.results = <<>> /\ Reduce(Top)

SpecFail == InitFail /\ [][NextFail]_vars

\* The i-th thing the helpers did is a callback invocation that threw.
Faulty(i) == log[i][1] = "call" /\ <<log[i][2], log[i][3]>> \in faults

\* What the pipeline yields when no callback throws.
Unfailing(o) ==
  IF IsStaged(objs[o].cls) THEN Output(o, Len(objs[o].pipeline))
  ELSE Applied(objs[o].iterable)

\* C12: once a callback has thrown, nothing further is done on that iterator
\* (no later callback, no later pull of the source); the loop or terminal
\* operation that made the pull has failed, and fails only so; what was
\* delivered up to the failure is the unfailing output's prefix, each element
\* once; nothing is delivered after it, on however many later pulls.
C12_FailurePropagates ==
  /\ \A i \in DOMAIN log : Faulty(i) => i = Len(log)
  /\ (\E i \in DOMAIN log : Faulty(i))
       <=> \/ \E c \in DOMAIN cons : cons[c].failed
           \/ \E i \in DOMAIN aux.results : aux.results[i].st = "throw"
  /\ \A c \in DOMAIN cons :
       /\ IsPrefix(cons[c].out, Unfailing(Top))
       /\ cons[c].failed => Len(cons[c].out) = cons[c].lenAtFail
       /\ (cons[c].done /\ ~cons[c].failed) => cons[c].out = Unfailing(Top)
  /\ \A i \in DOMAIN aux.results :
       /\ IsPrefix(aux.results[i].out, Unfailing(Top))
       /\ aux.results[i].st = "done" => aux.results[i].out = Unfailing(Top)

\* A loop failed after it had received an element, and its iterator was
\* pulled again.
C12_Witness ==
  \E c \in DOMAIN cons :
    /\ cons[c].failed /\ cons[c].done
    /\ cons[c].lenAtFail > 0
    /\ Len(cons[c].out) < Len(Unfailing(Top))

\* ------------------------------------------------------------------ flatMap
\* fn of flatMap: x => [x, x / 2], or the same two values from an async
\* generator (for the classes whose flatMap takes one).
FlatFns == {"xhalf", "xhalfAsync"}

\* [6, 8, 10], what reaches flatMap in the example pipeline.
Filtered == <<6, 8, 10>>

Evens == {[i \in 1..n |-> 2 * i] : n \in 0..MaxLen} \cup {Filtered}

InitFlatMap ==
  \E k \in {"array", "gen"}, cls \in Classes, items \in Evens :
    /\ Accepts(cls, Source(k, <<>>))
    /\ Offers(cls, "flatMap")
    /\ InitWith(<<Source(k, items)>>, <<Obj(cls, SrcRef(1))>>)

\* seq.flatMap(fn), then one loop over the result.
NextFlatMap ==
  \/ \E f \in FlatFns :
       /\ aux.ret = 0
       /\ isAsyncIterable(f) => IsAsync(objs[1].cls)
       /\ ChainCall(1, "flatMap", f, <<>>)
  \/ aux.ret # 0 /\ cons = <<>> /\ Iterate(aux.ret)
  \/ aux.ret # 0 /\ cons = <<>> /\ Stream(aux.ret)
  \/ \E c \in DOMAIN cons : Pull(c)
  \/ Arrive(1)
  \/ Wait(1)

SpecFlatMap == InitFlatMap /\ [][NextFlatMap]_vars

\* How many times the callback what has been invoked.
Invoked(what) == Cardinality({i \in DOMAIN log : log[i][1] = "call" /\ log[i][2] = what})

\* C13: the loop over seq.flatMap(fn) receives fn(x1), fn(x2), ... end to end,
\* in order, and all of it by the time it is done; with k elements received,
\* upstream has been asked for exactly the inputs whose nested sequences those
\* k elements come from (the next input is pulled only by the pull that finds
\* the current nested sequence exhausted), and fn has run once per input;
\* [6, 8, 10] gives [6, 3, 8, 4, 10, 5].
C13_FlatMapInOrder ==
  \A c \in DOMAIN cons :
    LET items == srcs[1].items
        want == Flat([i \in DOMAIN items |-> FlatFn(aux.a, items[i])])
    IN  /\ IsPrefix(cons[c].out, want)
        /\ cons[c].done => cons[c].out = want
        /\ pulled[1] = IF cons[c].done THEN Len(items) ELSE (Len(cons[c].out) + 1) \div 2
        /\ Invoked("flatMap") = pulled[1]
        /\ (items = Filtered /\ cons[c].done) => cons[c].out = <<6, 3, 8, 4, 10, 5>>

\* A loop has received the whole of one nested async sequence and the first
\* element of the next.
C13_Witness ==
  \E c \in DOMAIN cons :
    /\ Len(cons[c].out) = 3
    /\ pulled[1] = 2
    /\ isAsyncIterable(aux.a)

\* ---------------------------------------------------------------------- tap
\* The stage before the tap, and the one after it.
BeforeTap == { <<"filter", "odd", <<>>>>, <<"map", "x2", <<>>>>, <<"take", 2, <<>>>> }

AfterTap == { <<"filter", "odd", <<>>>> }

InitTap ==
  \E k \in {"array", "gen"}, cls \in Classes, n \in 0..MaxLen :
    /\ Accepts(cls, Source(k, <<>>))
    /\ InitWith(<<Source(k, [i \in 1..n |-> i])>>, <<Obj(cls, SrcRef(1))>>)

\* The sequence the chain of calls has arrived at.
Newest == IF IsStaged(objs[1].cls) THEN 1 ELSE Len(objs)

\* The sequence has been tapped.
Tapped ==
  \/ \E k \in DOMAIN objs[1].pipeline : objs[1].pipeline[k].op = "tap"
  \/ \E g \in DOMAIN gens : gens[g].op = "tap"

\* At most one stage, tap(fn), at most one more stage, then one loop.
NextTap ==
  \/ \E c \in BeforeTap :
       cons = <<>> /\ aux.ret = 0 /\ ChainCall(Newest, c[1], c[2], c[3])
  \/ cons = <<>> /\ ~Tapped /\ ChainCall(Newest, "tap", "t", <<>>)
  \/ \E c \in AfterTap :
       cons = <<>> /\ aux.op = "tap" /\ ChainCall(Newest, c[1], c[2], c[3])
  \/ cons = <<>> /\ Tapped /\ Iterate(Newest)
  \/ cons = <<>> /\ Tapped /\ Stream(1)
  \/ \E c \in DOMAIN cons : Pull(c)
  \/ Arrive(1)
  \/ Wait(1)

SpecTap == InitTap /\ [][NextTap]_vars

\* The arguments fn of tap has been invoked with, in the order of invocation.
TapArgs ==
  LET t == SelectSeq(log, LAMBDA e : e[1] = "call" /\ e[2] = "tap")
  IN  [i \in DOMAIN t |-> t[i][3]]

\* C14: fn of tap has been invoked on the elements that have come through the
\* tap, once each and in their order; with tap the last stage the loop has
\* received exactly the elements fn has been invoked on (fn has run on an
\* element when the loop holds it, no element is changed), and fn has not run
\* more often than the loop has pulled; with a filter after the tap the loop
\* has received the accepted ones among them.
C14_TapOnDemand ==
  \A g \in DOMAIN gens :
    gens[g].op = "tap" =>
      /\ IsPrefix(TapArgs, Applied(gens[g].ups[1]))
      /\ \A c \in DOMAIN cons :
           /\ aux.op = "tap" =>
                /\ cons[c].out = TapArgs
                /\ Invoked("tap") <= cons[c].n
           /\ aux.op # "tap" =>
                cons[c].out = SelectSeq(TapArgs, LAMBDA x : PredFn(aux.a, x))
           /\ cons[c].done => TapArgs = Applied(gens[g].ups[1])

\* A loop over a pipeline ending in tap has pulled twice, and fn has run on the
\* two elements it has received, of which the source has more.
C14_Witness ==
  \E c \in DOMAIN cons :
    /\ aux.op = "tap"
    /\ cons[c].n = 2
    /\ Len(TapArgs) = 2
    /\ ~cons[c].done
    /\ pulled[1] < Len(srcs[1].items)

\* ------------------------------------------- async stages, await by await
\* An async pipeline with every await a step of its own: a generator is
\* suspended at its start or at a yield ("susp"), awaits its upstream's next()
\* ("await_up"), awaits the promise of its callback ("await_fn"), is about to
\* yield the next element of a nested sequence ("yield"), or has returned.
\* t counts how long the callback has been suspended, cnt the callback's
\* invocations, idx the source element the stage's element comes from.
MaxWait == 1

AsyncOps == { <<"map", "x2">>, <<"filter", "odd">>, <<"tap", "t">>, <<"flatMap", "xhalf">> }

AsyncStage(c) ==
  [op |-> c[1], a |-> c[2], st |-> "susp", val |-> 0, idx |-> 0, buf |-> <<>>,
   t |-> 0, cnt |-> 0]

\* The chains of calls: x / 2 is taken of even numbers only.
AsyncPipelines ==
  { p \in UNION {[1..n -> AsyncOps] : n \in 1..MaxStages} :
      \A k \in DOMAIN p :
        p[k][1] = "flatMap" => k > 1 /\ p[k - 1][1] = "map" }

InitAsync ==
  /\ srcs = <<>> /\ spos = <<>> /\ sclosed = <<>> /\ pulled = <<>>
  /\ ended = <<>> /\ ready = <<>>
  /\ gens = <<>> /\ objs = <<>>
  /\ calls = 0 /\ log = <<>> /\ cons = <<>> /\ aux = NoCall
  /\ fl = NoFlatten /\ conv = <<>> /\ faults = {} /\ ctl = NoCtl
  /\ \E p \in AsyncPipelines, n \in 0..MaxLen :
       run = [NoRun EXCEPT !.stages = [k \in DOMAIN p |-> AsyncStage(p[k])],
                           !.items = [i \in 1..n |-> i]]

\* for await (const item of iter): iter.next() runs the upstream generator up to
\* its next await; a flatMap inside a nested sequence goes on with that.
RECURSIVE Demand(_, _)
Demand(r, k) ==
  IF k = 0 THEN [r EXCEPT !.src = "pending"]
  ELSE IF r.stages[k].buf # <<>> THEN [r EXCEPT !.stages[k].st = "yield"]
  ELSE Demand([r EXCEPT !.stages[k].st = "await_up"], k - 1)

\* The promise of next() resolves with v: the awaiting generator goes on to
\* await fn(item); past the last stage it is the loop that has its element.
Receive(r, k, v, i) ==
  IF k > Len(r.stages) THEN [r EXCEPT !.out = Append(@, v), !.waiting = FALSE]
  ELSE [r EXCEPT !.stages[k].st = "await_fn", !.stages[k].val = v,
                 !.stages[k].idx = i, !.stages[k].t = 0, !.stages[k].cnt = @ + 1]

\* An asyncMap that asks upstream for the next element as soon as it has
\* handed one on.
asyncMapAhead(r, k) ==
  Demand(Receive([r EXCEPT !.stages[k].st = "susp"], k + 1,
                 MapFn(r.stages[k].a, r.stages[k].val), r.stages[k].idx), k)

\* asyncMap, once fn's promise has settled: yield (the awaited value)
asyncMap(r, k) ==
  Receive([r EXCEPT !.stages[k].st = "susp"], k + 1,
          MapFn(r.stages[k].a, r.stages[k].val), r.stages[k].idx)

\* asyncTap, once fn's promise has settled: yield item
asyncTap(r, k) ==
  Receive([r EXCEPT !.stages[k].st = "susp"], k + 1, r.stages[k].val, r.stages[k].idx)

\* asyncFilter, once the predicate's promise has settled: yield item, or on to
\* the next iteration of the for await loop
asyncFilter(r, k) ==
  IF PredFn(r.stages[k].a, r.stages[k].val)
    THEN Receive([r EXCEPT !.stages[k].st = "susp"], k + 1, r.stages[k].val, r.stages[k].idx)
    ELSE Demand(r, k)

\* asyncFlatMap, once fn's promise has settled: the first yield of the loop
\* over subIterable
asyncFlatMapSettled(r, k) ==
  LET sub == FlatFn(r.stages[k].a, r.stages[k].val)
  IN  IF sub = <<>> THEN Demand(r, k)
      ELSE Receive([r EXCEPT !.stages[k].st = "susp", !.stages[k].buf = Tail(sub)],
                   k + 1, Head(sub), r.stages[k].idx)

AsyncStep(r) ==
  /\ run' = r
  /\ UNCHANGED <<srcs, spos, sclosed, pulled, ended, ready, gens, objs, calls, log,
                 cons, aux, fl, conv, faults, ctl>>

\* The loop's for await asks for the next element.
NextItem ==
  /\ run.stages # <<>>
  /\ ~run.waiting /\ ~run.done
  /\ AsyncStep(Demand([run EXCEPT !.waiting = TRUE], Len(run.stages)))

\* The source generator yields its next element, or returns: then every
\* for await loop above it ends.
SourceYield ==
  /\ run.src = "pending"
  /\ IF run.pos < Len(run.items)
       THEN AsyncStep(Receive([run EXCEPT !.src = "idle", !.pos = @ + 1],
                              1, run.items[run.pos + 1], run.pos + 1))
       ELSE AsyncStep([run EXCEPT !.src = "done", !.done = TRUE, !.waiting = FALSE,
                         !.stages = [k \in DOMAIN @ |-> [@[k] EXCEPT !.st = "done"]]])

\* The callback of stage k stays suspended for a while longer.
Suspended(k) ==
  /\ run.stages[k].st = "await_fn"
  /\ run.stages[k].t < MaxWait
  /\ AsyncStep([run EXCEPT !.stages[k].t = @ + 1])

\* The promise of stage k's callback settles.
Settle(k) ==
  /\ run.stages[k].st = "await_fn"
  /\ \E r \in {[run EXCEPT !.durs = Append(@, run.stages[k].t)]} :
       AsyncStep(CASE r.stages[k].op = "map" -> asyncMap(r, k)
                   [] r.stages[k].op = "filter" -> asyncFilter(r, k)
                   [] r.stages[k].op = "tap" -> asyncTap(r, k)
                   [] r.stages[k].op = "flatMap" -> asyncFlatMapSettled(r, k))

\* The loop over a nested sequence yields its next element.
Deliver(k) ==
  /\ run.stages[k].st = "yield"
  /\ AsyncStep(Receive([run EXCEPT !.stages[k].st = "susp", !.stages[k].buf = Tail(@)],
                       k + 1, Head(run.stages[k].buf), run.stages[k].idx))

NextAsync ==
  \/ NextItem
  \/ SourceYield
  \/ \E k \in DOMAIN run.stages : Suspended(k)
  \/ \E k \in DOMAIN run.stages : Settle(k)
  \/ \E k \in DOMAIN run.stages : Deliver(k)

SpecAsync == InitAsync /\ [][NextAsync]_vars

\* The stages whose callback has been invoked and has not completed.
InFlight == {k \in DOMAIN run.stages : run.stages[k].st = "await_fn"}

\* What the stages from to to of the pipeline make of the elements q.
RECURSIVE Through(_, _, _)
Through(q, from, to) ==
  IF to < from THEN q
  ELSE LET u == Through(q, from, to - 1)
           S == run.stages[to]
       IN  CASE S.op = "map" -> [i \in DOMAIN u |-> MapFn(S.a, u[i])]
             [] S.op = "filter" -> SelectSeq(u, LAMBDA x : PredFn(S.a, x))
             [] S.op = "tap" -> u
             [] S.op = "flatMap" -> Flat([i \in DOMAIN u |-> FlatFn(S.a, u[i])])

\* C15: no two callbacks are in flight at once; while the callback of a stage
\* is in flight for the m-th element that has reached the stage, the loop has
\* received all that the rest of the pipeline makes of the stage's first m - 1
\* elements, and nothing else; what the loop receives is in source order,
\* and all of it when the loop is done, however long the callbacks were
\* suspended.
C15_OneCallbackInFlight ==
  LET n == Len(run.stages)
  IN  /\ Cardinality(InFlight) <= 1
      /\ \A k \in InFlight :
           run.out = Through(SubSeq(Through(run.items, 1, k - 1), 1, run.stages[k].cnt - 1),
                             k, n)
      /\ IsPrefix(run.out, Through(run.items, 1, n))
      /\ run.done => run.out = Through(run.items, 1, n)

\* A callback of a two-stage pipeline is in flight after the loop has received
\* two elements, and the callbacks so far were suspended for different times.
C15_Witness ==
  /\ Len(run.stages) = 2
  /\ InFlight # {}
  /\ Len(run.out) >= 2
  /\ \E i, j \in DOMAIN run.durs : run.durs[i] # run.durs[j]

\* ------------------------------------- LazyStream against SyncSequence
\* SyncSequence's flatten: for (const sub of iter) yield* sub.  yield* of a
\* value without Symbol.iterator is a TypeError.
RECURSIVE SyncSequence_flatten(_)
SyncSequence_flatten(iter) ==
  IF iter = <<>> THEN [out |-> <<>>, st |-> "done"]
  ELSE IF ~HasIterator(Head(iter)) THEN [out |-> <<>>, st |-> "throw"]
  ELSE Only({ [out |-> Head(iter).items \o r.out, st |-> r.st]
              : r \in {SyncSequence_flatten(Tail(iter))} })

\* The chain calls both classes have, flatten apart.
EquivOps ==
  { <<"map", "x2", <<>>>>, <<"filter", "odd", <<>>>>, <<"take", 1, <<>>>>,
    <<"take", 2, <<>>>>, <<"skip", 1, <<>>>>, <<"tap", "t", <<>>>>,
    <<"concat", 0, <<2>>>>, <<"zip", 0, <<2>>>> }

\* A LazyStream (1) and a SyncSequence (3) over equal sources, each with a
\* second sequence of its class (2, 4) to concat or zip with; or a nested
\* input for both to flatten.
InitEquiv ==
  \/ \E k \in {"array", "gen"}, la \in 0..MaxLen, lb \in 0..MaxJoin :
       /\ InitWith(<<Source(k, [i \in 1..la |-> i]), Source(k, [i \in 1..lb |-> 10 + i]),
                     Source(k, [i \in 1..la |-> i]), Source(k, [i \in 1..lb |-> 10 + i])>>,
                   <<Obj("LazyStream", SrcRef(1)), Obj("LazyStream", SrcRef(2)),
                     Obj("SyncSequence", SrcRef(3)), Obj("SyncSequence", SrcRef(4))>>)
  \/ /\ srcs = <<>> /\ spos = <<>> /\ sclosed = <<>> /\ pulled = <<>>
     /\ ended = <<>> /\ ready = <<>> /\ gens = <<>> /\ objs = <<>>
     /\ calls = 0 /\ log = <<>> /\ cons = <<>> /\ aux = NoCall
     /\ conv = <<>> /\ faults = {} /\ run = NoRun /\ ctl = NoCtl
     /\ \E input \in Inputs :
          fl = [impl |-> "LazyStream", input |-> input, depth |-> Infinity,
                out |-> <<>>, done |-> FALSE]

\* The SyncSequence the chain of calls has arrived at.
SyncTop == IF Len(objs) = 4 THEN 3 ELSE Len(objs)

\* The same chain call on both; the pairs of a zip are handed to no further stage.
BuildBoth ==
  \E c \in EquivOps :
    /\ objs # <<>>
    /\ aux.results = <<>>
    /\ Len(objs[1].pipeline) < MaxChain
    /\ LastOp(1) # "zip"
    /\ \E r1 \in {addOperation(Heap, 1, Stage(c[1], c[2], c[3]))} :
       \E r2 \in {wrap(r1.h, SyncTop, Stage(c[1], c[2], [i \in DOMAIN c[3] |-> c[3][i] + 2]))} :
         /\ Commit(r2.h)
         /\ aux' = [aux EXCEPT !.recv = 1, !.ret = r2.ret, !.op = c[1], !.a = c[2]]
    /\ UNCHANGED <<srcs, ready, cons, rest>>

Result(op, o, d) == [op |-> op, o |-> o, out |-> d.out, val |-> 0, st |-> d.st]

\* [...lazy.stream()] and [...seq]
MaterializeBoth ==
  /\ objs # <<>>
  /\ aux.results = <<>>
  /\ \E m \in {stream(Heap, 1)} :
     \E d1 \in {Drain(m.h, m.ref, 0, <<>>, "")} :
     \E d2 \in {Drain(d1.h, objs[SyncTop].iterable, 0, <<>>, "")} :
       /\ Commit(Collect(d2.h))
       /\ aux' = [aux EXCEPT !.results = <<Result("stream", 1, d1), Result("iterate", SyncTop, d2)>>]
  /\ UNCHANGED <<srcs, ready, cons, rest>>

\* [...new LazyStream(input).flatten().stream()] and
\* [...new SyncSequence(input).flatten()]
FlattenBoth ==
  /\ fl.impl # "" /\ ~fl.done
  /\ \E d2 \in {SyncSequence_flatten(fl.input)} :
       aux' = [aux EXCEPT !.results =
                 <<Result("stream", 0, [out |-> flatten(fl.input, fl.depth), st |-> "done"]),
                   Result("iterate", 0, d2)>>]
  /\ fl' = [fl EXCEPT !.done = TRUE]
  /\ UNCHANGED <<srcs, spos, sclosed, pulled, ended, ready, gens, objs, calls, log,
                 cons, conv, faults, run, ctl>>

NextEquiv ==
  \/ BuildBoth
  \/ MaterializeBoth
  \/ FlattenBoth

SpecEquiv == InitEquiv /\ [][NextEquiv]_vars

\* C16: the first materialization of the LazyStream and the iteration of the
\* SyncSequence, built by the same chain over equal sources, end alike and
\* have received the same elements.
C16_LazyStreamAsSyncSequence ==
  Len(aux.results) = 2 =>
    /\ aux.results[1].st = aux.results[2].st
    /\ aux.results[1].out = aux.results[2].out

\* The same for the chains without flatten.
SameWithoutFlatten == fl.impl = "" => C16_LazyStreamAsSyncSequence

\* ---------------------------------------------------------------- toPromise
\* A toPromise whose loop runs to its end and hands back the first element.
toPromiseDrain(h, o) ==
  Only({ [h |-> d.h, out |-> SubSeq(d.out, 1, Min(1, Len(d.out))), st |-> d.st]
         : d \in { Drain(m.h, m.ref, 0, <<>>, "")
                   : m \in {stream(addOperation(h, o, Stage("take", 1, <<>>)).h, o)} } })

\* toPromise(): for (const item of this.take(1).stream()) { return item; }
\* return undefined.  The return inside the loop calls return() on the iterator.
toPromise(h, o) ==
  Only({ IF r.st = "val" THEN [h |-> Close(r.h, m.ref), out |-> <<r.val>>, st |-> "done"]
         ELSE [h |-> r.h, out |-> <<>>, st |-> r.st]
         : <<m, r>> \in { <<m, PullRef(m.h, m.ref, 0)>>
                          : m \in {stream(addOperation(h, o, Stage("take", 1, <<>>)).h, o)} } })

InitPromise ==
  \E k \in {"array", "gen"}, cls \in {"LazyStream", "AsyncLazyStream"},
     n \in 0..MaxLen, p \in Pipelines :
    /\ Accepts(cls, Source(k, <<>>))
    /\ InitWith(<<Source(k, [i \in 1..n |-> i]), Source(k, <<7, 9>>)>>,
                <<[Obj(cls, SrcRef(1))
                     EXCEPT !.pipeline = [j \in DOMAIN p |-> Stage(p[j][1], p[j][2], p[j][3])]],
                  Obj(cls, SrcRef(2))>>)

\* await s.toPromise(); the promise resolves once the first element is there.
ToPromise(o) ==
  /\ aux.results = <<>>
  /\ \E d \in {toPromise(Heap, o)} :
       /\ d.st # "blocked"
       /\ Commit(d.h)
       /\ aux' = [aux EXCEPT !.before = objs[o].pipeline,
                             !.results = <<[op |-> "toPromise", o |-> o, out |-> d.out,
                                            val |-> IF d.out = <<>> THEN NoVal ELSE d.out[1],
                                            st |-> d.st]>>]
  /\ UNCHANGED <<srcs, ready, cons, rest>>

NextPromise ==
  \/ ToPromise(1)
  \/ \E x \in DOMAIN srcs : aux.results = <<>> /\ Arrive(x)
  \/ \E x \in DOMAIN srcs : aux.results = <<>> /\ Wait(x)

SpecPromise == InitPromise /\ [][NextPromise]_vars

\* C17: toPromise() has resolved with the first element of what the pipeline
\* (as it was before the call) yields, or with undefined when that is empty,
\* and the take(1) stage it added, the newest generator, has received at most
\* one element from the stage before it.
C17_ToPromiseFirst ==
  \A i \in DOMAIN aux.results :
    \A want \in {Output(1, Len(aux.before))} :
      /\ aux.results[i].st = "done"
      /\ want = <<>> => aux.results[i].out = <<>> /\ aux.results[i].val = NoVal
      /\ want # <<>> => aux.results[i].out = <<want[1]>> /\ aux.results[i].val = want[1]
      /\ gens[Len(gens)].op \in {"take", "asyncTake"}
      /\ gens[Len(gens)].cnt <= 1

\* toPromise() of an AsyncLazyStream has resolved with the first of several
\* elements of a pipeline of two stages.
C17_Witness ==
  /\ aux.results # <<>>
  /\ objs[1].cls = "AsyncLazyStream"
  /\ Len(aux.before) = 2
  /\ Len(Output(1, 2)) > 1
  /\ aux.results[1].out = <<Output(1, 2)[1]>>


-----------------------------------------------------------------------------
\* The rate adjusters.  ctl holds the closure variables of one adjuster (delay,
\* errorSum, lastError), the delay before its last call (prev), the latency it
\* was last called with, what it returned, and n, whether it has been called
\* (the PID adjusters: how often); used is the integral that went into the
\* last adjustment, streak the number of calls in a row, up to the last, whose
\* latency was the target.
Max(a, b) == IF a >= b THEN a ELSE b

\* ------------------------------------------------- the threshold adjuster
targetLatency == 1000
InitialDelay == 1000
Band == 200          \* error > 200, error < -200
Step == 100          \* delay += 100, delay -= 100
MinDelay == 100
MaxDelay == 5000

\* The latencies the adjuster is called with: around both edges of the band,
\* on target, and far off on either side.
Latencies == {0, 799, 800, 801, 1000, 1199, 1200, 1201, 9000}

\* slow with the edge of the band counted in.
slowInclusive(error) == error >= Band

slow(error) == error > Band
normal(error) == error >= -Band /\ error <= Band
fast(error) == error < -Band

\* No clamping at all.
unclamped(delay) == delay

\* Math.max(100, Math.min(5000, delay))
clamp(delay) == Max(MinDelay, Min(MaxDelay, delay))

\* fuzzyRateAdjuster(): the closure's variables
fuzzyRateAdjuster ==
  [NoCtl EXCEPT !.impl = "fuzzy", !.delay = InitialDelay, !.prev = InitialDelay]

\* (latency) => { ... return delay }
fuzzyAdjust(c, latency) ==
  LET error == targetLatency - latency
      delay == IF slow(error) THEN c.delay + Step
               ELSE IF fast(error) THEN c.delay - Step
               ELSE c.delay
  IN  [c EXCEPT !.prev = c.delay, !.delay = clamp(delay), !.ret = clamp(delay),
                !.latency = latency, !.n = 1]

\* No sequence exists.
NoPipelines ==
  /\ srcs = <<>> /\ spos = <<>> /\ sclosed = <<>> /\ pulled = <<>>
  /\ ended = <<>> /\ ready = <<>> /\ gens = <<>> /\ objs = <<>>
  /\ calls = 0 /\ log = <<>> /\ cons = <<>> /\ aux = NoCall
  /\ fl = NoFlatten /\ conv = <<>> /\ faults = {}

\* The adjusters are run on their own.
NoSequences == NoPipelines /\ run = NoRun

InitFuzzy == NoSequences /\ ctl = fuzzyRateAdjuster

\* delay = rateAdjuster(latency), with whatever latency was measured
FuzzyCall ==
  /\ \E latency \in Latencies : ctl' = fuzzyAdjust(ctl, latency)
  /\ UNCHANGED <<srcs, spos, sclosed, pulled, ended, ready, gens, objs, calls, log,
                 cons, aux, fl, conv, faults, run>>

NextFuzzy == FuzzyCall

SpecFuzzy == InitFuzzy /\ [][NextFuzzy]_vars

\* C18: the threshold adjuster's delay is between 100 and 5000 ms at all
\* times, and so is every value it has returned.
C18_FuzzyDelayInRange ==
  ctl.impl = "fuzzy" =>
    /\ 100 <= ctl.delay /\ ctl.delay <= 5000
    /\ ctl.n > 0 => (100 <= ctl.ret /\ ctl.ret <= 5000)

\* A call asked for more delay with the delay at its upper limit already.
C18_Witness ==
  /\ ctl.impl = "fuzzy" /\ ctl.n > 0
  /\ ctl.prev = 5000 /\ ctl.latency < 800
  /\ ctl.ret = 5000

\* C19: a call with latency L at delay d returns, and leaves as the delay,
\* min(5000, d + 100) when L < 800, max(100, d - 100) when L > 1200, and d
\* when 800 <= L <= 1200, both edges included.
C19_FuzzyThresholds ==
  (ctl.impl = "fuzzy" /\ ctl.n > 0) =>
    /\ ctl.ret = ctl.delay
    /\ ctl.latency < 800 => ctl.delay = Min(5000, ctl.prev + 100)
    /\ ctl.latency > 1200 => ctl.delay = Max(100, ctl.prev - 100)
    /\ (800 <= ctl.latency /\ ctl.latency <= 1200) => ctl.delay = ctl.prev

\* A call on the upper edge of the dead band, after the delay has moved
\* away from its initial value, left the delay as it was.
C19_Witness ==
  /\ ctl.impl = "fuzzy" /\ ctl.n > 0
  /\ ctl.latency = 1200
  /\ ctl.prev # 1000
  /\ ctl.delay = ctl.prev

\* ------------------------------------------------------ the PID adjusters
\* createRateAdjuster (with the anti-windup limit) and the rateAdjuster of
\* main.  The gains are hundredths, so delays and adjustments are kept in
\* hundredths of a millisecond; errors and their sum are milliseconds.
MaxAdjust == 4       \* calls made on one adjuster

Scale == 100
kP == 10             \* 0.1
kI == 1              \* 0.01
kD == 1              \* 0.01
maxErrorSum == 5000
PidMinDelay == 100

PidLatencies == {0, 500, 1000, 7000}

PidAdjusters == {"createRateAdjuster", "rateAdjuster"}

\* The closure's variables: delay = 1000, errorSum = 0, lastError = 0
createRateAdjuster(impl) ==
  [NoCtl EXCEPT !.impl = impl, !.delay = InitialDelay * Scale, !.prev = InitialDelay * Scale]

\* errorSum after the call: Math.max(-maxErrorSum, Math.min(maxErrorSum,
\* errorSum + error)) in createRateAdjuster, errorSum += error in rateAdjuster.
Integral(c, error) ==
  IF c.impl = "createRateAdjuster"
    THEN Max(-maxErrorSum, Min(maxErrorSum, c.errorSum + error))
    ELSE c.errorSum + error

\* The adjuster without the floor under the delay.
pidAdjustUnfloored(c, latency) ==
  LET error == targetLatency - latency
      derivative == error - c.lastError
      errorSum == Integral(c, error)
      adjustment == kP * error + kI * errorSum + kD * derivative
  IN  [c EXCEPT !.prev = c.delay, !.delay = c.delay + adjustment,
                !.ret = c.delay + adjustment,
                !.errorSum = errorSum, !.used = errorSum, !.lastError = error,
                !.latency = latency, !.n = @ + 1,
                !.streak = IF latency = targetLatency THEN @ + 1 ELSE 0]

\* (latency) => { ... return delay }
pidAdjust(c, latency) ==
  LET error == targetLatency - latency
      derivative == error - c.lastError
      errorSum == Integral(c, error)
      adjustment == kP * error + kI * errorSum + kD * derivative
      delay == Max(PidMinDelay * Scale, c.delay + adjustment)
  IN  [c EXCEPT !.prev = c.delay, !.delay = delay, !.ret = delay,
                !.errorSum = errorSum, !.used = errorSum, !.lastError = error,
                !.latency = latency, !.n = @ + 1,
                !.streak = IF latency = targetLatency THEN @ + 1 ELSE 0]

InitPid == NoSequences /\ \E impl \in PidAdjusters : ctl = createRateAdjuster(impl)

\* delay = rateAdjuster(latency), with whatever latency was measured
PidCall ==
  /\ ctl.n < MaxAdjust
  /\ \E latency \in PidLatencies : ctl' = pidAdjust(ctl, latency)
  /\ UNCHANGED <<srcs, spos, sclosed, pulled, ended, ready, gens, objs, calls, log,
                 cons, aux, fl, conv, faults, run>>

NextPid == PidCall

SpecPid == InitPid /\ [][NextPid]_vars

\* C20: after every call of either PID adjuster errorSum is between -5000 and
\* 5000, and it is that clamped sum that went into the adjustment.
C20_ErrorSumClamped ==
  ctl.impl \in PidAdjusters =>
    /\ -5000 <= ctl.errorSum /\ ctl.errorSum <= 5000
    /\ ctl.used = ctl.errorSum

\* The same for createRateAdjuster alone.
ClampedInCreateRateAdjuster ==
  ctl.impl = "createRateAdjuster" => C20_ErrorSumClamped

\* C21: when createRateAdjuster's closure, in whatever state earlier calls
\* have left it, has been called with the target latency as often in a row as
\* the calls allow after one earlier call, the last of those calls has
\* returned what the call before it returned.
C21_SettlesOnTarget ==
  (ctl.impl = "createRateAdjuster" /\ ctl.streak >= MaxAdjust - 1) => ctl.ret = ctl.prev

\* -------------------------------------- a PID adjuster at constant latency
MaxConst == 30       \* calls made at the one latency

ConstLatencies == {0, 1000, 1001, 1100, 1500, 3000, 7000}

InitConst ==
  /\ NoSequences
  /\ \E impl \in PidAdjusters, latency \in ConstLatencies :
       ctl = [createRateAdjuster(impl) EXCEPT !.latency = latency]

\* delay = rateAdjuster(latency), the latency the same every time
ConstCall ==
  /\ ctl.n < MaxConst
  /\ ctl' = pidAdjust(ctl, ctl.latency)
  /\ UNCHANGED <<srcs, spos, sclosed, pulled, ended, ready, gens, objs, calls, log,
                 cons, aux, fl, conv, faults, run>>

NextConst == ConstCall

SpecConst == InitConst /\ [][NextConst]_vars

\* C22: a fresh createRateAdjuster called with one latency above the target
\* every time returns less than the call before (less than the initial delay
\* the first time) as long as that was above 100 ms, never less than 100 ms,
\* and 100 ms once 100 ms has been returned.
C22_DecreasesToMinDelay ==
  (ctl.impl = "createRateAdjuster" /\ ctl.latency > 1000 /\ ctl.n > 0) =>
    /\ ctl.ret >= 100 * Scale
    /\ ctl.prev > 100 * Scale => ctl.ret < ctl.prev
    /\ ctl.prev = 100 * Scale => ctl.ret = 100 * Scale

\* At a latency of 1500 ms the delay has come down to 100 ms over several
\* calls, and the next call has returned 100 ms again.
C22_Witness ==
  /\ ctl.impl = "createRateAdjuster" /\ ctl.latency = 1500
  /\ ctl.n > 2
  /\ ctl.prev = 100 * Scale /\ ctl.ret = 100 * Scale

\* C27: what a PID adjuster has returned is at least 100 ms and at most
\* 5000 ms, after every call.
C27_PidDelayInRange ==
  (ctl.impl \in PidAdjusters /\ ctl.n > 0) =>
    /\ 100 * Scale <= ctl.ret
    /\ ctl.ret <= 5000 * Scale

\* ----------------------------------------------------------- the paced loop
\* main's for await over stream(rateAdjuster), await by await.  The producer
\* (the generator stream) has not started ("start"), awaits its timer
\* ("waiting") or is suspended at its yield ("yielded"); the consumer is
\* between iterations ("idle"), awaits next() ("awaiting") or awaits
\* doAsyncTask ("processing").  events is what has happened, in order:
\* <<"pull", k>> the k-th next(), <<"wait", d>> a timer of d ms set,
\* <<"emit", i>> Message i yielded, <<"done", i>> its processing finished,
\* <<"adjust", d>> rateAdjuster called and d returned.
MaxMsgs == 3         \* messages emitted

LoopLatencies == {0, 700, 1000, 9000}

\* const rateAdjuster = fuzzyRateAdjuster(); stream(rateAdjuster): let delay = 1000
InitLoop ==
  /\ NoPipelines
  /\ ctl = fuzzyRateAdjuster
  /\ run = [pst |-> "start", cst |-> "idle", i |-> 0, delay |-> InitialDelay,
            latency |-> 0, pulls |-> 0, out |-> <<>>, events |-> <<>>]

LoopStep(r, c) ==
  /\ run' = r
  /\ ctl' = c
  /\ UNCHANGED <<srcs, spos, sclosed, pulled, ended, ready, gens, objs, calls, log,
                 cons, aux, fl, conv, faults>>

\* A producer that does not stop at its yield: it adjusts and sets its next
\* timer at once.
yieldMessageAndGoOn(r, latency) ==
  [r EXCEPT !.pst = "waiting", !.cst = "processing", !.latency = latency,
            !.out = Append(@, r.i), !.i = @ + 1,
            !.events = @ \o <<<<"emit", r.i>>, <<"adjust", r.delay>>, <<"wait", r.delay>>>>]

\* The timer has fired: latency = currentTime - lastYieldTime; yield `Message ${i}`.
\* The consumer's await of next() ends and it begins doAsyncTask(v).
yieldMessage(r, latency) ==
  [r EXCEPT !.pst = "yielded", !.cst = "processing", !.latency = latency,
            !.out = Append(@, r.i), !.events = Append(@, <<"emit", r.i>>)]

\* for await asks for the next message: the generator starts, or goes on
\* after its yield with delay = rateAdjuster(latency) and i++, and sets the
\* timer of its next round.
ConsumerPull ==
  /\ run.cst = "idle"
  /\ \E r \in {[run EXCEPT !.cst = "awaiting", !.pulls = @ + 1,
                           !.events = Append(@, <<"pull", run.pulls + 1>>)]} :
       IF run.pst = "start"
         THEN LoopStep([r EXCEPT !.pst = "waiting",
                                 !.events = Append(@, <<"wait", r.delay>>)], ctl)
         ELSE \E c \in {fuzzyAdjust(ctl, run.latency)} :
                LoopStep([r EXCEPT !.pst = "waiting", !.delay = c.ret, !.i = @ + 1,
                                   !.events = @ \o <<<<"adjust", c.ret>>, <<"wait", c.ret>>>>],
                         c)

\* await new Promise((resolve) => setTimeout(resolve, delay)) ends.
TimerFires ==
  /\ run.pst = "waiting"
  /\ run.i < MaxMsgs
  /\ \E latency \in LoopLatencies : LoopStep(yieldMessage(run, latency), ctl)

\* await doAsyncTask(v) ends.
TaskDone ==
  /\ run.cst = "processing"
  /\ LoopStep([run EXCEPT !.cst = "idle",
                          !.events = Append(@, <<"done", run.out[Len(run.out)]>>)], ctl)

NextLoop ==
  \/ ConsumerPull
  \/ TimerFires
  \/ TaskDone

SpecLoop == InitLoop /\ [][NextLoop]_vars

\* C23: the messages received are 0, 1, 2, ... in order; every emission of a
\* Message i + 1 comes directly after the setting of one timer, that directly
\* after one call of the rate adjuster which returned the timer's delay, that
\* directly after the consumer's next pull, that directly after the end of
\* the processing of Message i, and that after the emission of Message i
\* with nothing in between.
C23_PacedLoop ==
  /\ run.out = [k \in 1..Len(run.out) |-> k - 1]
  /\ \A p \in DOMAIN run.events :
       (run.events[p][1] = "emit" /\ run.events[p][2] > 0) =>
         /\ p > 5
         /\ run.events[p - 1][1] = "wait"
         /\ run.events[p - 2][1] = "adjust"
         /\ run.events[p - 2][2] = run.events[p - 1][2]
         /\ run.events[p - 3][1] = "pull"
         /\ run.events[p - 4] = <<"done", run.events[p][2] - 1>>
         /\ run.events[p - 5] = <<"emit", run.events[p][2] - 1>>

\* Message 2 has been emitted after a wait other than the first one's.
C23_Witness ==
  /\ run.out = <<0, 1, 2>>
  /\ run.events[Len(run.events)] = <<"emit", 2>>
  /\ run.events[Len(run.events) - 1][2] # InitialDelay


\* -------------------------------------------------------- take and skip
\* Two builds of one source, take(n) on the first and skip(n) on the second,
\* and a loop over each.
InitSplit ==
  \E k \in {"array", "gen"}, cls \in Classes, len \in 0..MaxLen :
    /\ Accepts(cls, Source(k, <<>>))
    /\ InitWith(<<Source(k, [i \in 1..len |-> i]), Source(k, [i \in 1..len |-> i])>>,
                <<Obj(cls, SrcRef(1)), Obj(cls, SrcRef(2))>>)

\* The sequence take(n) returned, and the one skip(n) returned.
TakeObj == IF IsStaged(objs[1].cls) THEN 1 ELSE 3
SkipObj == IF IsStaged(objs[1].cls) THEN 2 ELSE 4

NextSplit ==
  \/ \E n \in 0..MaxN : aux.ret = 0 /\ ChainCall(1, "take", n, <<>>)
  \/ aux.op = "take" /\ ChainCall(2, "skip", aux.a, <<>>)
  \/ aux.op = "skip" /\ Len(cons) < 2 /\ Iterate(IF cons = <<>> THEN TakeObj ELSE SkipObj)
  \/ aux.op = "skip" /\ Len(cons) < 2 /\ Stream(IF cons = <<>> THEN TakeObj ELSE SkipObj)
  \/ \E c \in DOMAIN cons : Pull(c)
  \/ \E x \in DOMAIN srcs : Arrive(x)
  \/ \E x \in DOMAIN srcs : Wait(x)

SpecSplit == InitSplit /\ [][NextSplit]_vars

\* C24: the loop over take(n) receives the first min(n, len) elements of the
\* source in order, the loop over skip(n) the elements after the first n in
\* order (none when n >= len), each all of them by the time it is done; the
\* two outputs, one after the other, are the source.
C24_TakeThenSkip ==
  LET S == srcs[1].items
      n == aux.a
  IN  /\ Len(cons) >= 1 =>
           /\ IsPrefix(cons[1].out, SubSeq(S, 1, Min(n, Len(S))))
           /\ cons[1].done => cons[1].out = SubSeq(S, 1, Min(n, Len(S)))
      /\ Len(cons) = 2 =>
           /\ IsPrefix(cons[2].out, SubSeq(S, n + 1, Len(S)))
           /\ cons[2].done => cons[2].out = SubSeq(S, n + 1, Len(S))
           /\ (cons[2].done /\ n >= Len(S)) => cons[2].out = <<>>
           /\ (cons[1].done /\ cons[2].done) => cons[1].out \o cons[2].out = S

\* Both loops are done, and each has received a part of the source.
C24_Witness ==
  /\ Len(cons) = 2
  /\ cons[1].done /\ cons[2].done
  /\ cons[1].out # <<>> /\ cons[2].out # <<>>

\* ------------------------------------------- toPromise, then the pipeline
MaxPromises == 2     \* toPromise() calls made before the pipeline is run

InitAfter ==
  \E k \in {"array", "gen"}, cls \in {"LazyStream", "AsyncLazyStream"},
     n \in 1..MaxLen, p \in Pipelines :
    /\ Accepts(cls, Source(k, <<>>))
    /\ InitWith(<<Source(k, [i \in 1..n |-> i]), Source(k, <<7, 9>>)>>,
                <<[Obj(cls, SrcRef(1))
                     EXCEPT !.pipeline = [j \in DOMAIN p |-> Stage(p[j][1], p[j][2], p[j][3])]],
                  Obj(cls, SrcRef(2))>>)

\* await s.toPromise(), with the stage list as it was before the first such
\* call kept in aux.before and the calls counted in aux.a.
ToPromiseThen(o) ==
  /\ \E d \in {toPromise(Heap, o)} :
       /\ d.st # "blocked"
       /\ Commit(Collect(d.h))
       /\ aux' = [aux EXCEPT !.before = IF aux.a = 0 THEN objs[o].pipeline ELSE @,
                             !.a = @ + 1]
  /\ UNCHANGED <<srcs, ready, cons, rest>>

NextAfter ==
  \/ aux.a < MaxPromises /\ Runs = 0 /\ ToPromiseThen(1)
  \/ aux.a > 0 /\ Runs = 0 /\ ForEach(1)
  \/ aux.a > 0 /\ Runs = 0 /\ Reduce(1)
  \/ aux.a > 0 /\ Runs = 0 /\ Stream(1)
  \/ \E c \in DOMAIN cons : Pull(c)

SpecAfter == InitAfter /\ [][NextAfter]_vars

\* What a forEach, a reduce or a loop over stream() made after the toPromise()
\* calls has seen is (so far) the output of the stages 1..k of the pipeline.
SeesOutput(k) ==
  \A want \in {Output(1, k)} :
    /\ \A i \in DOMAIN aux.results :
         /\ aux.results[i].out = want
         /\ aux.results[i].op = "reduce" => aux.results[i].val = Sum(want)
    /\ \A c \in DOMAIN cons :
         /\ IsPrefix(cons[c].out, want)
         /\ cons[c].done => cons[c].out = want

\* C25: after any number of toPromise() calls the pipeline's stage list is
\* what it was before them, and over a re-iterable source a forEach, a reduce
\* or a loop over stream() made afterwards sees the complete output of that
\* stage list.
C25_ToPromiseKeepsPipeline ==
  aux.a > 0 =>
    /\ objs[1].pipeline = aux.before
    /\ srcs[1].kind = "array" => SeesOutput(Len(aux.before))

\* What the code does instead: every toPromise() call has left one take(1)
\* stage at the end of the stage list, and what runs afterwards sees the
\* output of the list so extended.
ToPromiseAppendsTake1 ==
  aux.a > 0 =>
    /\ Len(objs[1].pipeline) = Len(aux.before) + aux.a
    /\ SubSeq(objs[1].pipeline, 1, Len(aux.before)) = aux.before
    /\ \A k \in (Len(aux.before) + 1)..Len(objs[1].pipeline) :
         objs[1].pipeline[k].op = "take" /\ objs[1].pipeline[k].a = 1
    /\ srcs[1].kind = "array" => SeesOutput(Len(objs[1].pipeline))

\* ------------------------------------------------- async -> sync -> async
\* new AsyncSequence(fetchSensorIds()).map(...).toSync(), then filter and map
\* on the result, a for...of over what they return, and toAsync() on it.
InitFlow ==
  \E n \in {MaxLen, Stream1Len} :
    InitWith(<<Source("gen", [i \in 1..n |-> i])>>, <<Obj("AsyncSequence", SrcRef(1))>>)

\* processedSensors: the sequence the for...of runs over.
Derived == IF cons = <<>> THEN Len(objs) ELSE aux.ret

NextFlow ==
  \/ \E f \in {"x2", "id"} : Len(objs) = 1 /\ ChainCall(1, "map", f, <<>>)
  \/ Len(objs) = 2 /\ conv = <<>> /\ ToSync(2)
  \/ \E i \in DOMAIN conv : ToSyncNext(i)
  \/ \E p \in {"gt5", "odd"} : Len(objs) = 3 /\ ChainCall(3, "filter", p, <<>>)
  \/ \E f \in {"x2", "id"} : Len(objs) = 4 /\ cons = <<>> /\ ChainCall(4, "map", f, <<>>)
  \/ Len(objs) \in {4, 5} /\ cons = <<>> /\ Iterate(Derived)
  \/ Len(cons) = 1 /\ cons[1].done /\ Len(objs) = Derived /\ ToAsync(Derived)
  \/ Len(cons) = 1 /\ Len(objs) > Derived /\ Iterate(Len(objs))
  \/ \E c \in DOMAIN cons : Pull(c)
  \/ Arrive(1)
  \/ Wait(1)

SpecFlow == InitFlow /\ [][NextFlow]_vars

\* C26: the loop over processedSensors.toAsync() receives the elements the
\* for...of over processedSensors received before it, in the same order, all
\* of them by the time it is done.
C26_DerivedIteratedTwice ==
  Len(cons) = 2 =>
    /\ IsPrefix(cons[2].out, cons[1].out)
    /\ cons[2].done => cons[2].out = cons[1].out

\* What the code does instead: the for...of has used up the generator object
\* processedSensors wraps, and the loop over toAsync() receives nothing.
SecondLoopEmpty ==
  Len(cons) = 2 => cons[2].out = <<>>

\* --------------------------------- a chain call between stream() and a pull
\* A pipeline of stages over one source, which is ready whenever it is pulled.
InitLate ==
  \E k \in {"array", "gen"}, cls \in {"LazyStream", "AsyncLazyStream"},
     n \in 0..MaxLen, p \in {q \in Pipelines : \A j \in DOMAIN q : q[j][1] # "concat"} :
    /\ Accepts(cls, Source(k, <<>>))
    /\ InitWith(<<Source(k, [i \in 1..n |-> i])>>,
                <<[Obj(cls, SrcRef(1))
                     EXCEPT !.pipeline = [j \in DOMAIN p |-> Stage(p[j][1], p[j][2], p[j][3])]]>>)

\* const it = s.stream(), with the stage list at the call kept in aux.before.
StreamThen(o) ==
  /\ IsStaged(objs[o].cls)
  /\ \E r \in {stream(Heap, o)} :
       /\ Commit(r.h)
       /\ cons' = Append(cons, Consumer(r.ref))
  /\ aux' = [aux EXCEPT !.recv = o, !.before = objs[o].pipeline]
  /\ UNCHANGED <<srcs, ready, rest>>

\* The chain calls made on the pipeline after stream() has returned.
LateOps == { <<"map", "x2">>, <<"filter", "gt5">>, <<"take", 1>>, <<"skip", 1>> }

NextLate ==
  \/ cons = <<>> /\ StreamThen(1)
  \/ \E s \in LateOps :
       /\ Len(cons) = 1 /\ cons[1].n = 0 /\ aux.op = ""
       /\ ChainCall(1, s[1], s[2], <<>>)
  \/ \E c \in DOMAIN cons : Pull(c)

SpecLate == InitLate /\ [][NextLate]_vars

\* C28: a loop over what stream() returned receives the output of the stages
\* that were in the pipeline when stream() was called, whether or not a chain
\* call was made on the pipeline between that call and the loop's first pull.
C28_StagesFixedAtStreamCall ==
  \A c \in DOMAIN cons :
    \A want \in {Output(1, Len(aux.before))} :
      /\ IsPrefix(cons[c].out, want)
      /\ cons[c].done => cons[c].out = want

\* C28 for LazyStream alone, whose stream() is an ordinary method.
LazyStreamFixedAtCall ==
  objs[1].cls = "LazyStream" => C28_StagesFixedAtStreamCall

\* What AsyncLazyStream does instead: the loop receives the output of the
\* stages in the pipeline at its first pull.
AsyncStagesFixedAtFirstPull ==
  objs[1].cls = "AsyncLazyStream" =>
    \A c \in DOMAIN cons :
      cons[c].n > 0 =>
        \A want \in {Output(1, Len(objs[1].pipeline))} :
          /\ IsPrefix(cons[c].out, want)
          /\ cons[c].done => cons[c].out = want

\* ------------------------------------------------------- the pulls of zip
\* The next() calls made on source s so far: one per element it handed out,
\* and the one on which it reported its end.
NextCalls(s) == pulled[s] + (IF ended[s] THEN 1 ELSE 0)

\* C29: zip asks the left side, then the right side, step by step: the
\* elements drawn come alternately from the left and the right for min(len(a),
\* len(b)) steps, and at most one more is drawn after them; neither side gets
\* more than min(len(a), len(b)) + 1 next() calls.  Once zip is done, a longer
\* left side has handed out exactly one element that was not emitted, and when
\* the left side ended first (or with the right one) the right side was still
\* asked once more, the element it handed out then, if any, being dropped.
C29_ZipPullOrder ==
  aux.op = "zip" =>
    LET la == Len(srcs[1].items)
        lb == Len(srcs[2].items)
        n == Min(la, lb)
    IN  /\ \A i \in DOMAIN log :
             i <= 2 * n => log[i] = <<"pull", IF i % 2 = 1 THEN 1 ELSE 2>>
        /\ Len(log) <= 2 * n + 1
        /\ NextCalls(1) <= n + 1 /\ NextCalls(2) <= n + 1
        /\ NextCalls(2) <= NextCalls(1) /\ NextCalls(1) <= NextCalls(2) + 1
        /\ pulled[3] = 0 /\ ~ended[3]
        /\ \A c \in DOMAIN cons :
             cons[c].done =>
               /\ NextCalls(1) = n + 1 /\ NextCalls(2) = n + 1
               /\ la > lb => pulled[1] = n + 1 /\ ~ended[1] /\ ended[2]
               /\ la < lb => ended[1] /\ pulled[2] = n + 1 /\ ~ended[2]
               /\ la = lb => ended[1] /\ ended[2]

\* zip is done over a left side that ended first: the right side has handed
\* out one element more than were emitted.
C29_Witness ==
  /\ aux.op = "zip"
  /\ \E c \in DOMAIN cons : cons[c].done /\ cons[c].out # <<>>
  /\ Len(srcs[1].items) < Len(srcs[2].items)
  /\ ended[1]
  /\ pulled[2] = Len(srcs[1].items) + 1

\* ---------------------------------------------- flatten, call by call
\* flatten as the generators it is made of.  fl.frames are the calls of
\* flatten / syncFlatten / asyncFlatten that are suspended inside one another,
\* outermost first: what each has left to iterate, and its depth argument.
\* The engine gives up (RangeError) when the calls nest deeper than MaxFrames,
\* a limit set above what any input without strings and any finite depth of
\* the driver needs.
MaxStr == 2          \* longest string among the leaf values
MaxFrames == MaxDepth + 2

Leafs == {Num(1)} \cup {Str(n) : n \in 0..MaxStr}

\* Inputs of at most two items, each a leaf value or an iterable of at most
\* two leaf values; those handed to LazyStream nest sync iterables only.
DeepInputs ==
  Seqs(Leafs \cup {SyncOf(q) : q \in Seqs(Leafs, 2)} \cup {AsyncOf(q) : q \in Seqs(Leafs, 2)}, 2)

InitDeep ==
  /\ srcs = <<>> /\ spos = <<>> /\ sclosed = <<>> /\ pulled = <<>>
  /\ ended = <<>> /\ ready = <<>> /\ gens = <<>> /\ objs = <<>>
  /\ calls = 0 /\ log = <<>> /\ cons = <<>> /\ aux = NoCall /\ conv = <<>>
  /\ faults = {} /\ run = NoRun /\ ctl = NoCtl
  /\ \E impl \in {"LazyStream", "AsyncSequence"}, input \in DeepInputs,
        depth \in 0..MaxDepth \cup {Infinity} :
       /\ impl = "LazyStream" => ~HasAsync(input)
       /\ fl = [impl |-> impl, input |-> input, depth |-> depth, out |-> <<>>,
             done |-> FALSE, failed |-> FALSE,
             frames |-> <<[items |-> input, depth |-> depth]>>]

\* depth > 0 && item && typeof item[Symbol.iterator] === 'function', and in
\* the async pair the same test for Symbol.asyncIterator before it.
Descends(impl, item, depth) ==
  /\ Positive(depth)
  /\ Truthy(item)
  /\ HasIterator(item) \/ (impl # "LazyStream" /\ HasAsyncIterator(item))

\* One next() on the outermost generator: the innermost call goes on with its
\* loop until some call yields an element or the outermost one returns.
RECURSIVE flattenNext(_)
flattenNext(f) ==
  IF f.frames = <<>> THEN [f EXCEPT !.done = TRUE]
  ELSE LET top == f.frames[Len(f.frames)] IN
       IF top.items = <<>>
         THEN flattenNext([f EXCEPT !.frames = SubSeq(@, 1, Len(@) - 1)])
       ELSE LET item == Head(top.items)
                on == [f.frames EXCEPT ![Len(f.frames)].items = Tail(@)]
            IN  IF ~Descends(f.impl, item, top.depth)
                  THEN [f EXCEPT !.frames = on, !.out = Append(@, item)]
                ELSE IF Len(f.frames) >= MaxFrames
                  THEN [f EXCEPT !.frames = <<>>, !.failed = TRUE, !.done = TRUE]
                ELSE flattenNext([f EXCEPT !.frames =
                       Append(on, [items |-> Elements(item), depth |-> Minus1(top.depth)])])

FlattenNext ==
  /\ ~fl.done
  /\ fl' = flattenNext(fl)
  /\ UNCHANGED <<srcs, spos, sclosed, pulled, ended, ready, gens, objs, calls, log, cons,
                 aux, conv, faults, run, ctl>>

NextDeep == FlattenNext

SpecDeep == InitDeep /\ [][NextDeep]_vars

\* The leaf values of an input, strings included, in depth-first order.
RECURSIVE LeafValues(_)
LeafValues(q) ==
  IF q = <<>> THEN <<>>
  ELSE (IF Head(q).k \in {"num", "str"} THEN <<Head(q)>> ELSE LeafValues(Head(q).items))
       \o LeafValues(Tail(q))

\* C30: flatten() with the default unbounded depth never nests its calls
\* beyond what the engine allows, emits the leaf values of the input in order,
\* each once, and has emitted all of them when it is done.
C30_FlattenTerminates ==
  fl.depth = Infinity =>
    /\ ~fl.failed
    /\ IsPrefix(fl.out, LeafValues(fl.input))
    /\ fl.done => fl.out = LeafValues(fl.input)

\* With unbounded depth flatten ends properly on the inputs that hold no
\* non-empty string, and fails on every input its walk meets one in.
OnlyStringsFail ==
  fl.depth = Infinity =>
    /\ (\A i \in DOMAIN LeafValues(fl.input) :
          LeafValues(fl.input)[i].k = "str" => LeafValues(fl.input)[i].v = 0)
         => C30_FlattenTerminates
    /\ fl.failed => \E i \in DOMAIN LeafValues(fl.input) :
                      LeafValues(fl.input)[i].k = "str" /\ LeafValues(fl.input)[i].v > 0

\* With a finite depth every call ends properly.
FiniteDepthTerminates ==
  fl.depth # Infinity => ~fl.failed /\ Len(fl.frames) <= fl.depth + 1

=============================================================================
